---- MODULE Spec2Model ----
(***************************************************************************)
(* Model of mbtool's backup/restore engine (src/mbtool/backup.cpp).        *)
(*                                                                         *)
(* Spec         the two commands backup_main / restore_main, the ROM-level *)
(*              coordinators backup_rom / restore_rom and the per-target   *)
(*              steps, down to the individual mount-point operations of    *)
(*              the image-mode steps.  An invocation is either a command   *)
(*              (entry = "main") or a call of backup_rom / restore_rom     *)
(*              with arbitrary arguments (entry = "direct").               *)
(* SpecTargets  parse_targets_string applied to every bounded input.       *)
(* SpecConfig   backup_configs / restore_configs, call by call, on the     *)
(*              files they read and write.                                 *)
(* SpecBoot     backup_boot_image / restore_boot_image, call by call, on   *)
(*              the boot images they read and write; the step may be run   *)
(*              again on what the previous run left.                       *)
(*                                                                         *)
(* Strings are sequences of symbols.  A backup name is a sequence over     *)
(* ".", "/" and "a" ("a" stands for any other character).  A targets       *)
(* string is a sequence over "," and word chunks; a token is the sequence  *)
(* of chunks between two commas, so the token "system" is <<"system">>.    *)
(* Outcomes of the external collaborators (stat, mkdir, mount, umount,     *)
(* archive, wipe, extract, copy, codecs) are chosen by the environment at  *)
(* the moment the code calls them.                                         *)
(***************************************************************************)
EXTENDS Integers, Sequences, FiniteSets, TLC

VARIABLES
    entry,          \* "main": a command runs; "direct": backup_rom/restore_rom is called
    cmd,            \* "backup" | "restore"
    pc,             \* position in the code
    romid,          \* -r argument
    targets_str,    \* -t argument
    name,           \* -n argument (backup: defaults to the formatted time)
    force,          \* -f
    targets,        \* the target bitmask
    name_checked,   \* outcome of is_valid_backup_name in the command
    partitions,     \* what ensure_partitions_mounted saw
    exit_status,    \* "none" | "success" | "failure"
    rom,            \* the ROM descriptor's image-mode flags
    rom_called,     \* backup_rom / restore_rom has been entered
    rom_ret,        \* "none" | "true" | "false": return value of backup_rom / restore_rom
    steps,          \* the steps run so far: <<[step, result]>>, result "Running" while in progress
    ops,            \* the collaborator calls of the current partition step, in order
    body_ret,       \* local `ret` of backup_image / restore_image / *_partition
    mnt_exists,     \* BACKUP_MNT_DIR exists
    mnt_count,      \* number of filesystems mounted at BACKUP_MNT_DIR
    hk_mkdir,       \* restore_rom: outcome of creating MULTIBOOT_DIR/<id>
    perms_fixed,    \* restore_rom: fix_multiboot_permissions() was called
    size_query,     \* restore_rom: outcome of mount_get_total_size
    image_size,     \* restore_partition: its image_size argument
    created_size,   \* restore_image: the size given to create_ext4_image
    conf,           \* SpecConfig: the config and thumbnail files, sources and destinations
    boot,           \* SpecBoot: the boot images, the codec objects and the ROM id
    bundle_dir,     \* the command's stat of the bundle directory: "unknown" | "exists" | "absent"
    tree,           \* SpecTree: a live directory, its archive and the directory restored into
    inv             \* SpecTwo: two invocations running an image-mode step each

vars == <<entry, cmd, pc, romid, targets_str, name, force, targets, name_checked,
          partitions, exit_status, rom, rom_called, rom_ret, steps, ops, body_ret,
          mnt_exists, mnt_count, hk_mkdir, perms_fixed, size_query,
          image_size, created_size, conf, boot, bundle_dir, tree, inv>>

(***************************************************************************)
(* Bounds                                                                  *)
(***************************************************************************)
\* longest targets string explored by SpecTargets, in symbols
MaxTargetsLen == 5
\* longest -t argument explored by the commands, in symbols
MaxMainTargetsLen == 1
\* longest backup name, in characters
MaxNameLen == 3

(***************************************************************************)
(* Target set                                                              *)
(***************************************************************************)
BACKUP_TARGET_SYSTEM == 1
BACKUP_TARGET_CACHE == 2
BACKUP_TARGET_DATA == 4
BACKUP_TARGET_BOOT == 8
BACKUP_TARGET_CONFIG == 16

RECURSIVE BitOr(_, _)
\* a | b on non-negative ints
BitOr(a, b) ==
    IF a = 0 THEN b
    ELSE IF b = 0 THEN a
    ELSE (IF a % 2 = 1 \/ b % 2 = 1 THEN 1 ELSE 0) + 2 * BitOr(a \div 2, b \div 2)

\* a & bit, as a truth value, for a single-bit mask
BitAnd(a, bit) == (a \div bit) % 2 = 1

BACKUP_TARGET_ALL ==
    BitOr(BACKUP_TARGET_SYSTEM,
    BitOr(BACKUP_TARGET_CACHE,
    BitOr(BACKUP_TARGET_DATA,
    BitOr(BACKUP_TARGET_BOOT, BACKUP_TARGET_CONFIG))))

Comma == ","
Words == {"all", "system", "cache", "data", "boot", "config", "x"}
Symbols == Words \cup {Comma}

\* all strings of at most n symbols
TargetStrings(n) == UNION {[1..k -> Symbols] : k \in 0..n}

\* the string literal "w"
Str(w) == <<w>>

RECURSIVE find_first_of(_, _, _)
\* std::string::find_first_of(delim, begin): index (1-based) of the first
\* delimiter at or after begin, 0 for npos
find_first_of(str, delim, begin) ==
    IF begin > Len(str) THEN 0
    ELSE IF str[begin] = delim THEN begin
    ELSE find_first_of(str, delim, begin + 1)

RECURSIVE split_from(_, _, _)
split_from(str, delim, begin) ==
    LET end == find_first_of(str, delim, begin)
    IN  IF end = 0
        THEN <<SubSeq(str, begin, Len(str))>>
        ELSE <<SubSeq(str, begin, end - 1)>> \o split_from(str, delim, end + 1)

\* util::split: the pieces between the delimiters, empty pieces included
split(str, delim) == split_from(str, delim, 1)

\* faulty variant of parse_loop: `result =` in place of `result |=`
RECURSIVE parse_loop_assign(_, _, _)
parse_loop_assign(targets_list, i, result) ==
    IF i > Len(targets_list) THEN result
    ELSE LET target == targets_list[i]
         IN  IF target = Str("all")
             THEN parse_loop_assign(targets_list, i + 1, BACKUP_TARGET_ALL)
             ELSE IF target = Str("system")
             THEN parse_loop_assign(targets_list, i + 1, BACKUP_TARGET_SYSTEM)
             ELSE IF target = Str("cache")
             THEN parse_loop_assign(targets_list, i + 1, BACKUP_TARGET_CACHE)
             ELSE IF target = Str("data")
             THEN parse_loop_assign(targets_list, i + 1, BACKUP_TARGET_DATA)
             ELSE IF target = Str("boot")
             THEN parse_loop_assign(targets_list, i + 1, BACKUP_TARGET_BOOT)
             ELSE IF target = Str("config")
             THEN parse_loop_assign(targets_list, i + 1, BACKUP_TARGET_CONFIG)
             ELSE 0

\* faulty variant of parse_loop: an unknown token is skipped
RECURSIVE parse_loop_skip(_, _, _)
parse_loop_skip(targets_list, i, result) ==
    IF i > Len(targets_list) THEN result
    ELSE LET target == targets_list[i]
         IN  IF target = Str("all")
             THEN parse_loop_skip(targets_list, i + 1, BitOr(result, BACKUP_TARGET_ALL))
             ELSE IF target = Str("system")
             THEN parse_loop_skip(targets_list, i + 1, BitOr(result, BACKUP_TARGET_SYSTEM))
             ELSE IF target = Str("cache")
             THEN parse_loop_skip(targets_list, i + 1, BitOr(result, BACKUP_TARGET_CACHE))
             ELSE IF target = Str("data")
             THEN parse_loop_skip(targets_list, i + 1, BitOr(result, BACKUP_TARGET_DATA))
             ELSE IF target = Str("boot")
             THEN parse_loop_skip(targets_list, i + 1, BitOr(result, BACKUP_TARGET_BOOT))
             ELSE IF target = Str("config")
             THEN parse_loop_skip(targets_list, i + 1, BitOr(result, BACKUP_TARGET_CONFIG))
             ELSE parse_loop_skip(targets_list, i + 1, result)

RECURSIVE parse_loop(_, _, _)
\* the for loop of parse_targets_string, from element i on
parse_loop(targets_list, i, result) ==
    IF i > Len(targets_list) THEN result
    ELSE LET target == targets_list[i]
         IN  IF target = Str("all")
             THEN parse_loop(targets_list, i + 1, BitOr(result, BACKUP_TARGET_ALL))
             ELSE IF target = Str("system")
             THEN parse_loop(targets_list, i + 1, BitOr(result, BACKUP_TARGET_SYSTEM))
             ELSE IF target = Str("cache")
             THEN parse_loop(targets_list, i + 1, BitOr(result, BACKUP_TARGET_CACHE))
             ELSE IF target = Str("data")
             THEN parse_loop(targets_list, i + 1, BitOr(result, BACKUP_TARGET_DATA))
             ELSE IF target = Str("boot")
             THEN parse_loop(targets_list, i + 1, BitOr(result, BACKUP_TARGET_BOOT))
             ELSE IF target = Str("config")
             THEN parse_loop(targets_list, i + 1, BitOr(result, BACKUP_TARGET_CONFIG))
             ELSE 0

parse_targets_string(str) == parse_loop(split(str, Comma), 1, 0)

(***************************************************************************)
(* Backup names                                                            *)
(***************************************************************************)
NameChars == {".", "/", "a"}

\* all names of at most n characters
Names(n) == UNION {[1..k -> NameChars] : k \in 0..n}

RECURSIVE find(_, _, _)
\* std::string::find(pat, pos): index (1-based) of the first occurrence of
\* pat at or after pos, 0 for npos
find(s, pat, pos) ==
    IF pos + Len(pat) - 1 > Len(s) THEN 0
    ELSE IF SubSeq(s, pos, pos + Len(pat) - 1) = pat THEN pos
    ELSE find(s, pat, pos + 1)

\* faulty variant of is_valid_backup_name: the ".." test is missing
is_valid_backup_name_nodotdot(n) ==
    /\ n # <<>>
    /\ n[1] # "."
    /\ find(n, <<"/">>, 1) = 0

is_valid_backup_name(n) ==
    /\ n # <<>>
    /\ n[1] # "."
    /\ find(n, <<".", ".">>, 1) = 0
    /\ find(n, <<"/">>, 1) = 0

(***************************************************************************)
(* State                                                                   *)
(***************************************************************************)
Steps == <<"Boot", "Config", "System", "Cache", "Data">>
Partitions == {"System", "Cache", "Data"}

\* the ROM descriptors: system_is_image, cache_is_image, data_is_image
Roms == [Partitions -> BOOLEAN]
NoRom == [p \in Partitions |-> FALSE]

\* the values mount_get_total_size can return (0: the query failed)
MaxLiveSize == 1
\* longest saved ramdisk archive, in files
MaxRamdiskEntries == 2
\* how many times in a row the Boot step is run on the same bundle
MaxBootRuns == 2
\* most entries of a live directory, "." and ".." not counted
MaxDirEntries == 2
LiveSizes == 0..MaxLiveSize
NotQueried == -1
\* no image size passed or used yet
NoSize == NotQueried
\* DEFAULT_IMAGE_SIZE (image.h): some size that no live partition of the model has
DEFAULT_IMAGE_SIZE == MaxLiveSize + 1

(***************************************************************************)
(* Files of the Config and Boot steps                                      *)
(***************************************************************************)
Absent == "absent"
\* what a failed copy_file may leave at its destination
Partial == "partial"
FileContents == {"v1", "v2"}

\* the Config step's files: the ROM's config file and thumbnail, the bundle's two
\* artifacts, the four as they were when the step began, and the local `ret`
NoConf == [config_path |-> Absent, thumbnail_path |-> Absent,
           config_backup |-> Absent, thumbnail_backup |-> Absent,
           config_path0 |-> Absent, thumbnail_path0 |-> Absent,
           config_backup0 |-> Absent, thumbnail_backup0 |-> Absent,
           ret |-> "none"]
\* the files before backup_configs (sources at the ROM) or restore_configs
\* (sources in the bundle); a destination may hold an older file
ConfigFiles(c) ==
    {[config_path |-> cp, thumbnail_path |-> tp, config_backup |-> cb,
      thumbnail_backup |-> tb, config_path0 |-> cp, thumbnail_path0 |-> tp,
      config_backup0 |-> cb, thumbnail_backup0 |-> tb, ret |-> "none"] :
        cp \in IF c = "backup" THEN FileContents \cup {Absent} ELSE {Absent, "old"},
        tp \in IF c = "backup" THEN FileContents \cup {Absent} ELSE {Absent, "old"},
        cb \in IF c = "backup" THEN {Absent, "old"} ELSE FileContents \cup {Absent},
        tb \in IF c = "backup" THEN {Absent, "old"} ELSE FileContents \cup {Absent}}

\* file names of a directory, as strings of characters
Dot == <<".">>
DotDot == <<".", ".">>
Multiboot == <<"m">>
Media == <<"d">>
\* ordinary entries: one whose name begins like an exclusion, a hidden one, a plain one
EntryNames == {Multiboot, Media, <<"m", "2">>, <<".", "a">>, <<"a">>}
\* what readdir returns for a directory of at most n entries: ".", ".." and
\* the entries, each once, in some order
Listings(n) ==
    {<<Dot, DotDot>> \o l : l \in
        UNION {{f \in [1..k -> EntryNames] : \A i, j \in 1..k : f[i] = f[j] => i = j}
               : k \in 0..n}}
\* the exclusion lists: none, and those backup_rom passes
ExclusionLists == {<<>>, <<Multiboot>>, <<Media, Multiboot>>}

\* SpecTree at rest: the readdir listing of the live directory, the exclusions,
\* `contents`, the members of the archive written, the entries of the
\* directory restored into, and what backup_directory and restore_directory returned
NoTree == [listing |-> <<>>, exclusions |-> <<>>, contents |-> <<>>, archive |-> <<>>,
           target |-> {}, backup_ret |-> "none", restore_ret |-> "none"]
\* SpecTwo at rest: no invocation, nothing mounted
NoInv == [procs |-> <<>>, stack |-> <<>>]

\* rom->id of the ROMs the Boot step is run for
RomIds == {"rom1", "rom2"}
\* mbp::BootImage::Type
Types == {"Android", "Loki", "Bump"}

\* one file of a ramdisk archive
Entry(n, d, m) == [name |-> n, data |-> d, mode |-> m]
\* the entries a saved ramdisk may hold: an older romid, and ordinary files
SavedEntries ==
    {Entry("romid", d, "0644") : d \in RomIds}
        \cup {Entry(n, "x", "0750") : n \in {"init", "default.prop"}}
\* archives of at most MaxRamdiskEntries files, no file name twice
Archives ==
    UNION {{a \in [1..n -> SavedEntries] :
                \A i, j \in 1..n : a[i].name = a[j].name => i = j}
           : n \in 0..MaxRamdiskEntries}

\* CpioFile::createData: the archive as bytes, file after file, closed by the trailer
RECURSIVE CpioCreateData(_)
CpioCreateData(files) ==
    IF files = <<>> THEN <<"TRAILER!!!">>
    ELSE <<Head(files).name, Head(files).data, Head(files).mode>>
             \o CpioCreateData(Tail(files))
\* CpioFile::load: the files of the archive bytes, up to the trailer
RECURSIVE CpioLoad(_)
CpioLoad(bytes) ==
    IF bytes = <<>> \/ Head(bytes) = "TRAILER!!!" THEN <<>>
    ELSE <<Entry(bytes[1], bytes[2], bytes[3])>>
             \o CpioLoad(SubSeq(bytes, 4, Len(bytes)))
\* CpioFile::remove: the archive without the files of that name
CpioRemove(files, n) == SelectSeq(files, LAMBDA e : e.name # n)
\* CpioFile::addFile: the archive with one more file
CpioAddFile(files, d, n, m) == Append(files, Entry(n, d, m))

\* a boot image file: its type, its ramdisk bytes, its aboot image
Image(t, r, a) == [type |-> t, ramdisk |-> r, aboot |-> a]
\* no file at the path
NoImage == Image("none", <<>>, "none")
\* what a failed write may leave at its destination
PartialImage == Image("partial", <<>>, "none")
\* a boot image that was at the destination before the step
OldImage == Image("Android", CpioCreateData(<<>>), "none")
\* the boot images a ROM or a bundle may hold
Images ==
    {Image(t, CpioCreateData(a), IF t = "Loki" THEN "aboot_saved" ELSE "none")
        : t \in Types, a \in Archives}
\* the content of ABOOT_PARTITION on the device
AbootDevice == "aboot_device"

\* mbp::BootImage before loadFile
NoBi == [wasType |-> "none", targetType |-> "none", ramdisk |-> <<>>, aboot |-> "none"]
\* BootImage::loadFile: the parsed file; the codec picks the target type from the type found
BootImageLoad(file, target_of) ==
    [wasType |-> file.type, targetType |-> target_of[file.type],
     ramdisk |-> file.ramdisk, aboot |-> file.aboot]
\* BootImage::createFile: the file written for the target type
BootImageCreate(bi) == Image(bi.targetType, bi.ramdisk, bi.aboot)
\* the target type the codec picks at load, one fixed choice per original type
TargetChoices == [Types -> Types]
SameTarget == [t \in Types |-> t]

\* the Boot step's files and objects: the ROM id, the live boot image and the
\* bundle's artifact (with what they were when this run of the step began),
\* the BootImage and CpioFile objects, new_ramdisk, the number of the run and
\* the result of the run before
NoBoot == [id |-> "rom1", live |-> NoImage, bundle |-> NoImage, live_before |-> NoImage,
           bundle_before |-> NoImage, target_of |-> SameTarget, bi |-> NoBi,
           cpio |-> <<>>, new_ramdisk |-> <<>>, run |-> 0, prev_result |-> "none"]
\* the files before backup_boot_image (a live image, or none) or before
\* restore_boot_image (a saved image, or none); the destination may hold an older image
BootFiles(c) ==
    {[NoBoot EXCEPT !.id = i, !.live = l, !.bundle = b, !.live_before = l,
                    !.bundle_before = b, !.target_of = f, !.run = 1] :
        i \in RomIds,
        l \in IF c = "backup" THEN Images \cup {NoImage} ELSE {NoImage, OldImage},
        b \in IF c = "backup" THEN {NoImage, OldImage} ELSE Images \cup {NoImage},
        f \in IF c = "backup" THEN {SameTarget} ELSE TargetChoices}

\* what util::format_time("%Y.%m.%d-%H.%M.%S") produces, shortened
TimestampName == <<"a", ".", "a">>

mainVars == <<romid, targets_str, name, force, name_checked, partitions, bundle_dir>>
stepVars == <<steps, ops, body_ret>>
restoreVars == <<hk_mkdir, perms_fixed, size_query>>
worldVars == <<mnt_exists, mnt_count>>
sizeVars == <<image_size, created_size>>
fileVars == <<conf, boot, tree, inv>>

Defaults ==
    /\ romid = ""
    /\ name = <<>>
    /\ force = FALSE
    /\ name_checked = "none"
    /\ partitions = [p \in Partitions |-> "unknown"]
    /\ exit_status = "none"
    /\ rom_ret = "none"
    /\ steps = <<>>
    /\ ops = <<>>
    /\ body_ret = FALSE
    /\ mnt_count = 0
    /\ hk_mkdir = "none"
    /\ perms_fixed = FALSE
    /\ size_query = NotQueried
    /\ image_size = NoSize
    /\ created_size = NoSize
    /\ bundle_dir = "unknown"

Init ==
    /\ Defaults
    /\ conf = NoConf
    /\ boot = NoBoot
    /\ tree = NoTree
    /\ inv = NoInv
    /\ targets_str = Str("all")
    /\ entry \in {"main", "direct"}
    /\ cmd \in {"backup", "restore"}
    /\ mnt_exists \in BOOLEAN
    /\ IF entry = "main"
       THEN /\ pc = IF cmd = "backup" THEN "m_time" ELSE "m_opts"
            /\ targets = 0
            /\ rom = NoRom
            /\ rom_called = FALSE
       ELSE /\ pc = "r_entry"
            /\ targets \in 0..BACKUP_TARGET_ALL
            /\ rom \in Roms
            /\ rom_called = TRUE

(***************************************************************************)
(* backup_main / restore_main                                              *)
(***************************************************************************)
EXIT_SUCCESS == "success"
EXIT_FAILURE == "failure"

\* return <status> from a command
Exit(status) ==
    /\ pc' = "done"
    /\ exit_status' = status

\* backup_main: the default name
M_FormatTime ==
    /\ pc = "m_time"
    /\ \/ /\ name' = TimestampName
          /\ pc' = "m_opts"
          /\ UNCHANGED exit_status
       \/ /\ Exit(EXIT_SUCCESS)          \* `return false` from a function returning int
          /\ UNCHANGED name
    /\ UNCHANGED <<fileVars, sizeVars, entry, cmd, romid, targets_str, force, targets, name_checked,
                   partitions, bundle_dir, rom, rom_called, rom_ret, stepVars, worldVars, restoreVars>>

\* the getopt_long loop and the check for stray arguments
M_Opts ==
    /\ pc = "m_opts"
    /\ romid' \in {"", "rom1"}
    /\ targets_str' \in TargetStrings(MaxMainTargetsLen) \cup {targets_str}
    /\ name' \in Names(MaxNameLen) \cup {name}
    /\ force' \in IF cmd = "backup" THEN BOOLEAN ELSE {FALSE}
    /\ \/ Exit(EXIT_SUCCESS)              \* -h
       \/ Exit(EXIT_FAILURE)              \* unknown option or stray argument
       \/ /\ pc' = "m_romid"
          /\ UNCHANGED exit_status
    /\ UNCHANGED <<fileVars, sizeVars, entry, cmd, targets, name_checked, partitions, bundle_dir, rom,
                   rom_called, rom_ret, stepVars, worldVars, restoreVars>>

M_Romid ==
    /\ pc = "m_romid"
    /\ IF romid = ""
       THEN Exit(EXIT_FAILURE)
       ELSE /\ pc' = IF cmd = "restore" THEN "m_name_given" ELSE "m_targets"
            /\ UNCHANGED exit_status
    /\ UNCHANGED <<fileVars, sizeVars, entry, cmd, mainVars, targets, rom, rom_called, rom_ret,
                   stepVars, worldVars, restoreVars>>

\* restore_main only
M_NameGiven ==
    /\ pc = "m_name_given"
    /\ IF name = <<>>
       THEN Exit(EXIT_FAILURE)
       ELSE /\ pc' = "m_targets"
            /\ UNCHANGED exit_status
    /\ UNCHANGED <<fileVars, sizeVars, entry, cmd, mainVars, targets, rom, rom_called, rom_ret,
                   stepVars, worldVars, restoreVars>>

M_Targets ==
    /\ pc = "m_targets"
    /\ targets' = parse_targets_string(targets_str)
    /\ IF targets' = 0
       THEN Exit(EXIT_FAILURE)
       ELSE /\ pc' = "m_name"
            /\ UNCHANGED exit_status
    /\ UNCHANGED <<fileVars, sizeVars, entry, cmd, mainVars, rom, rom_called, rom_ret,
                   stepVars, worldVars, restoreVars>>

M_Name ==
    /\ pc = "m_name"
    /\ IF is_valid_backup_name(name)
       THEN /\ name_checked' = "accepted"
            /\ pc' = "m_mounted"
            /\ UNCHANGED exit_status
       ELSE /\ name_checked' = "rejected"
            /\ Exit(EXIT_FAILURE)
    /\ UNCHANGED <<fileVars, sizeVars, entry, cmd, romid, targets_str, name, force, partitions, targets,
                   bundle_dir, rom, rom_called, rom_ret, stepVars, worldVars, restoreVars>>

\* variant: only the system partition is looked at
ensure_partitions_mounted_systemOnly(m) == m["System"] = "mounted"

\* system, cache, data: non-empty partition path and mounted
ensure_partitions_mounted(m) ==
    /\ m["System"] = "mounted"
    /\ m["Cache"] = "mounted"
    /\ m["Data"] = "mounted"

M_Mounted ==
    /\ pc = "m_mounted"
    /\ partitions' \in [Partitions -> {"mounted", "unmounted"}]
    /\ IF ensure_partitions_mounted(partitions')
       THEN /\ pc' = "m_rom"
            /\ UNCHANGED exit_status
       ELSE Exit(EXIT_FAILURE)
    /\ UNCHANGED <<fileVars, sizeVars, entry, cmd, romid, targets_str, name, force, name_checked, targets,
                   bundle_dir, rom, rom_called, rom_ret, stepVars, worldVars, restoreVars>>

\* backup: roms.find_by_id(romid); restore: Roms::create_rom(romid)
M_Rom ==
    /\ pc = "m_rom"
    /\ \/ /\ Exit(EXIT_FAILURE)
          /\ UNCHANGED rom
       \/ /\ rom' \in Roms
          /\ pc' = "m_dir"
          /\ UNCHANGED exit_status
    /\ UNCHANGED <<fileVars, sizeVars, entry, cmd, mainVars, targets, rom_called, rom_ret,
                   stepVars, worldVars, restoreVars>>

\* what the stat of the bundle directory found
DirStat(exists) == IF exists THEN "exists" ELSE "absent"

nameVars == <<romid, targets_str, name, force, name_checked, partitions>>

\* variant: backup_main does not look at the stat of the bundle directory
M_Dir_existingAllowed ==
    /\ pc = "m_dir"
    /\ \E exists \in BOOLEAN :
          /\ bundle_dir' = DirStat(exists)
          /\ IF cmd = "backup"
             THEN pc' = "m_mkdir" /\ UNCHANGED <<exit_status, rom_called>>
             ELSE IF ~exists
                  THEN Exit(EXIT_FAILURE) /\ UNCHANGED rom_called
                  ELSE pc' = "r_entry" /\ rom_called' = TRUE /\ UNCHANGED exit_status
    /\ UNCHANGED <<fileVars, sizeVars, entry, cmd, nameVars, targets, rom, rom_ret,
                   stepVars, worldVars, restoreVars>>

\* stat of the bundle directory
M_Dir ==
    /\ pc = "m_dir"
    /\ \E exists \in BOOLEAN :
          /\ bundle_dir' = DirStat(exists)
          /\ IF cmd = "backup"
             THEN IF ~force /\ exists
                  THEN Exit(EXIT_FAILURE) /\ UNCHANGED rom_called
                  ELSE pc' = "m_mkdir" /\ UNCHANGED <<exit_status, rom_called>>
             ELSE IF ~exists
                  THEN Exit(EXIT_FAILURE) /\ UNCHANGED rom_called
                  ELSE pc' = "r_entry" /\ rom_called' = TRUE /\ UNCHANGED exit_status
    /\ UNCHANGED <<fileVars, sizeVars, entry, cmd, nameVars, targets, rom, rom_ret,
                   stepVars, worldVars, restoreVars>>

\* backup_main only: mkdir_recursive(output_dir), then the call of backup_rom
M_Mkdir ==
    /\ pc = "m_mkdir"
    /\ \/ Exit(EXIT_FAILURE) /\ UNCHANGED <<rom_called, bundle_dir>>
       \/ /\ pc' = "r_entry"
          /\ rom_called' = TRUE
          /\ bundle_dir' = "exists"
          /\ UNCHANGED exit_status
    /\ UNCHANGED <<fileVars, sizeVars, entry, cmd, nameVars, targets, rom, rom_ret,
                   stepVars, worldVars, restoreVars>>

(***************************************************************************)
(* backup_rom / restore_rom                                                *)
(***************************************************************************)
SUCCEEDED == "Succeeded"
FAILED == "Failed"
FILES_MISSING == "FilesMissing"
RUNNING == "Running"

TargetBit(step) ==
    CASE step = "System" -> BACKUP_TARGET_SYSTEM
      [] step = "Cache" -> BACKUP_TARGET_CACHE
      [] step = "Data" -> BACKUP_TARGET_DATA
      [] step = "Boot" -> BACKUP_TARGET_BOOT
      [] step = "Config" -> BACKUP_TARGET_CONFIG

\* targets & BACKUP_TARGET_<step>
Selected(t, step) == BitAnd(t, TargetBit(step))

StepPc(step) ==
    CASE step = "Boot" -> "r_boot"
      [] step = "Config" -> "r_config"
      [] step = "System" -> "r_system"
      [] step = "Cache" -> "r_cache"
      [] step = "Data" -> "r_data"

\* variant of NextPc: fix_multiboot_permissions placed after the system block
NextPc_fixAfterSystem(c, step) ==
    CASE step = "Boot" -> "r_config"
      [] step = "Config" -> "r_system"
      [] step = "System" -> IF c = "restore" THEN "r_fixperm" ELSE "r_cache"
      [] step = "FixPerm" -> "r_cache"
      [] step = "Cache" -> "r_data"
      [] step = "Data" -> "r_true"

\* faulty variant of NextPc: the cache block placed before the system block
NextPc_cacheFirst(c, step) ==
    CASE step = "Boot" -> "r_config"
      [] step = "Config" -> IF c = "restore" THEN "r_fixperm" ELSE "r_cache"
      [] step = "FixPerm" -> "r_cache"
      [] step = "Cache" -> "r_system"
      [] step = "System" -> "r_data"
      [] step = "Data" -> "r_true"

\* where control goes after the block of a step that did not return
NextPc(c, step) ==
    CASE step = "Boot" -> "r_config"
      [] step = "Config" -> IF c = "restore" THEN "r_fixperm" ELSE "r_system"
      [] step = "FixPerm" -> "r_system"
      [] step = "System" -> "r_cache"
      [] step = "Cache" -> "r_data"
      [] step = "Data" -> "r_true"

\* faulty variant of AbortsRom: a Failed step does not end the run
AbortsRom_never(result) == FALSE

\* `if (... == Result::FAILED) return false;`
AbortsRom(result) == result = FAILED

\* the block of `step` ended with `result`
Continue(step, result) ==
    IF AbortsRom(result)
    THEN pc' = "r_return" /\ rom_ret' = "false"
    ELSE pc' = NextPc(cmd, step) /\ UNCHANGED rom_ret

\* `step` ran from its start to its return, with `result`
RunStep(step, result) ==
    /\ steps' = Append(steps, [step |-> step, result |-> result])
    /\ Continue(step, result)

CurStep == steps[Len(steps)].step

\* the running partition step returns `result`
StepReturn(result) ==
    /\ steps' = [steps EXCEPT ![Len(steps)].result = result]
    /\ Continue(CurStep, result)

\* faulty variant of RomEntry: the test of targets is missing
RomEntry_noCheck ==
    /\ pc = "r_entry"
    /\ pc' = IF cmd = "restore" THEN "r_mkdir_hk" ELSE "r_boot"
    /\ UNCHANGED <<fileVars, sizeVars, entry, cmd, mainVars, targets, exit_status, rom, rom_called, rom_ret,
                   stepVars, worldVars, restoreVars>>

\* `if (!targets) return false;`
RomEntry ==
    /\ pc = "r_entry"
    /\ IF targets = 0
       THEN pc' = "r_return" /\ rom_ret' = "false"
       ELSE /\ pc' = IF cmd = "restore" THEN "r_mkdir_hk" ELSE "r_boot"
            /\ UNCHANGED rom_ret
    /\ UNCHANGED <<fileVars, sizeVars, entry, cmd, mainVars, targets, exit_status, rom, rom_called,
                   stepVars, worldVars, restoreVars>>

\* restore_rom: mkdir_recursive(MULTIBOOT_DIR/<id>)
R_MkdirHk ==
    /\ pc = "r_mkdir_hk"
    /\ \/ hk_mkdir' = "ok" /\ pc' = "r_boot" /\ UNCHANGED rom_ret
       \/ hk_mkdir' = "fail" /\ pc' = "r_return" /\ rom_ret' = "false"
    /\ UNCHANGED <<fileVars, sizeVars, entry, cmd, mainVars, targets, exit_status, rom, rom_called,
                   stepVars, worldVars, perms_fixed, size_query>>

\* backup_boot_image: stat, copy_file
backup_boot_image(exists, copied) ==
    IF exists
    THEN IF ~copied THEN FAILED ELSE SUCCEEDED
    ELSE FILES_MISSING

\* restore_boot_image: stat of the artifact, then the fallible calls in order
restore_boot_image(exists, loaded, cpio_loaded, created, was_loki, aboot_read, written) ==
    IF ~exists THEN FILES_MISSING
    ELSE IF ~loaded THEN FAILED
    ELSE IF ~cpio_loaded THEN FAILED
    ELSE IF ~created THEN FAILED
    ELSE IF was_loki /\ ~aboot_read THEN FAILED
    ELSE IF ~written THEN FAILED
    ELSE SUCCEEDED

R_Boot ==
    /\ pc = "r_boot"
    /\ IF ~Selected(targets, "Boot")
       THEN pc' = NextPc(cmd, "Boot") /\ UNCHANGED <<steps, rom_ret>>
       ELSE IF cmd = "backup"
            THEN \E exists, copied \in BOOLEAN :
                    RunStep("Boot", backup_boot_image(exists, copied))
            ELSE \E exists, loaded, cpio_loaded, created, was_loki, aboot_read,
                    written \in BOOLEAN :
                    RunStep("Boot", restore_boot_image(exists, loaded, cpio_loaded,
                                        created, was_loki, aboot_read, written))
    /\ UNCHANGED <<fileVars, sizeVars, entry, cmd, mainVars, targets, exit_status, rom, rom_called,
                   ops, body_ret, worldVars, restoreVars>>

\* backup_configs / restore_configs: config file, then thumbnail
copy_configs(cfg_exists, cfg_copied, thumb_exists, thumb_copied) ==
    IF cfg_exists /\ ~cfg_copied THEN FAILED
    ELSE IF thumb_exists /\ ~thumb_copied THEN FAILED
    ELSE IF ~thumb_exists THEN FILES_MISSING
    ELSE IF ~cfg_exists THEN FILES_MISSING
    ELSE SUCCEEDED

R_Config ==
    /\ pc = "r_config"
    /\ IF ~Selected(targets, "Config")
       THEN pc' = NextPc(cmd, "Config") /\ UNCHANGED <<steps, rom_ret>>
       ELSE \E cfg_exists, cfg_copied, thumb_exists, thumb_copied \in BOOLEAN :
               RunStep("Config",
                       copy_configs(cfg_exists, cfg_copied, thumb_exists, thumb_copied))
    /\ UNCHANGED <<fileVars, sizeVars, entry, cmd, mainVars, targets, exit_status, rom, rom_called,
                   ops, body_ret, worldVars, restoreVars>>

\* restore_rom: fix_multiboot_permissions()
R_FixPerm ==
    /\ pc = "r_fixperm"
    /\ perms_fixed' = TRUE
    /\ pc' = NextPc(cmd, "FixPerm")
    /\ UNCHANGED <<fileVars, sizeVars, entry, cmd, mainVars, targets, exit_status, rom, rom_called, rom_ret,
                   stepVars, worldVars, hk_mkdir, size_query>>

(***************************************************************************)
(* backup_partition / restore_partition and what they call                 *)
(***************************************************************************)
\* `return ret ? Result::SUCCEEDED : Result::FAILED;`
PartitionResult(ret) == IF ret THEN SUCCEEDED ELSE FAILED

\* rom-><partition>_is_image of the running step
IsImage == rom[CurStep]

Op(o) == ops' = Append(ops, o)

\* faulty variant of SizeQueryFailed: a size of 0 is not treated as a failure
SizeQueryFailed_ignored(size) == FALSE

\* `if (image_size == 0) return false;`
SizeQueryFailed(size) == size = 0

\* first statement of backup_image / backup_directory / restore_image / restore_directory
BodyPc(c, is_image) ==
    IF c = "backup"
    THEN IF is_image THEN "i_mkdir_mnt" ELSE "b_archive"
    ELSE IF is_image THEN "i_mkdir_parent" ELSE "b_wipe"

\* the op recorded for the stat of backup_partition (live path) / restore_partition (archive)
StatOp(c, exists) ==
    IF c = "backup"
    THEN IF exists THEN "path_exists" ELSE "path_missing"
    ELSE IF exists THEN "archive_exists" ELSE "archive_missing"

\* variant: backup_partition goes on when the live path does not exist
PartitionStat_backupEnters(step, exists) ==
    /\ ops' = <<StatOp(cmd, exists)>>
    /\ IF exists \/ cmd = "backup"
       THEN /\ steps' = Append(steps, [step |-> step, result |-> RUNNING])
            /\ pc' = BodyPc(cmd, rom[step])
            /\ UNCHANGED rom_ret
       ELSE RunStep(step, FILES_MISSING)

\* variant: restore_partition goes on when the archive does not exist
PartitionStat_restoreEnters(step, exists) ==
    /\ ops' = <<StatOp(cmd, exists)>>
    /\ IF exists \/ cmd = "restore"
       THEN /\ steps' = Append(steps, [step |-> step, result |-> RUNNING])
            /\ pc' = BodyPc(cmd, rom[step])
            /\ UNCHANGED rom_ret
       ELSE RunStep(step, FILES_MISSING)

\* backup_partition / restore_partition: the stat, then the image or the
\* directory procedure, or `return Result::FILES_MISSING`
PartitionStat(step, exists) ==
    /\ ops' = <<StatOp(cmd, exists)>>
    /\ IF exists
       THEN /\ steps' = Append(steps, [step |-> step, result |-> RUNNING])
            /\ pc' = BodyPc(cmd, rom[step])
            /\ UNCHANGED rom_ret
       ELSE RunStep(step, FILES_MISSING)

\* variant: every restore is given the default image size
ImageSize_alwaysDefault(step, size) == DEFAULT_IMAGE_SIZE

\* the image_size argument of restore_partition: the queried size for System,
\* DEFAULT_IMAGE_SIZE for Cache and Data
ImageSize(step, size) == IF step = "System" THEN size ELSE DEFAULT_IMAGE_SIZE

\* the System / Cache / Data block of backup_rom / restore_rom, up to the stat
\* in backup_partition (live path) / restore_partition (archive)
R_Partition(step) ==
    /\ pc = StepPc(step)
    /\ IF ~Selected(targets, step)
       THEN /\ pc' = NextPc(cmd, step)
            /\ UNCHANGED <<rom_ret, stepVars, size_query, sizeVars>>
       ELSE \E size \in LiveSizes :
            /\ size_query' = IF cmd = "restore" /\ step = "System" THEN size ELSE size_query
            /\ IF cmd = "restore" /\ step = "System" /\ SizeQueryFailed(size)
               THEN /\ pc' = "r_return"
                    /\ rom_ret' = "false"
                    /\ UNCHANGED <<stepVars, sizeVars>>
               ELSE /\ body_ret' = FALSE
                    /\ image_size' = IF cmd = "restore" THEN ImageSize(step, size)
                                                       ELSE NoSize
                    /\ created_size' = NoSize
                    /\ \E exists \in BOOLEAN : PartitionStat(step, exists)
    /\ UNCHANGED <<fileVars, entry, cmd, mainVars, targets, exit_status, rom, rom_called,
                   worldVars, hk_mkdir, perms_fixed>>

\* faulty variant of AfterBody: *_image returns at once when its body failed
AfterBody_early(ret) ==
    IF IsImage /\ ret
    THEN pc' = "i_umount" /\ UNCHANGED <<steps, rom_ret>>
    ELSE StepReturn(PartitionResult(ret))

\* backup_directory / restore_directory returned `ret`: to its caller's next
\* statement (the umount in *_image, the return in *_partition)
AfterBody(ret) ==
    IF IsImage
    THEN pc' = "i_umount" /\ UNCHANGED <<steps, rom_ret>>
    ELSE StepReturn(PartitionResult(ret))

\* backup_directory: opendir, readdir, libarchive_tar_create
B_Archive ==
    /\ pc = "b_archive"
    /\ \E ok \in BOOLEAN :
          /\ Op(IF ok THEN "archive_ok" ELSE "archive_fail")
          /\ body_ret' = ok
          /\ AfterBody(ok)
    /\ UNCHANGED <<fileVars, sizeVars, entry, cmd, mainVars, targets, exit_status, rom, rom_called,
                   worldVars, restoreVars>>

\* variant: the archive is extracted whatever wipe_directory returned
B_Wipe_ignoresFailure ==
    /\ pc = "b_wipe"
    /\ \/ Op("wipe_ok")
       \/ Op("wipe_fail")
    /\ pc' = "b_extract"
    /\ UNCHANGED <<steps, rom_ret, body_ret>>
    /\ UNCHANGED <<fileVars, sizeVars, entry, cmd, mainVars, targets, exit_status, rom,
                   rom_called, worldVars, restoreVars>>

\* restore_directory: wipe_directory
B_Wipe ==
    /\ pc = "b_wipe"
    /\ \/ /\ Op("wipe_ok")
          /\ pc' = "b_extract"
          /\ UNCHANGED <<steps, rom_ret, body_ret>>
       \/ /\ Op("wipe_fail")
          /\ body_ret' = FALSE
          /\ AfterBody(FALSE)
    /\ UNCHANGED <<fileVars, sizeVars, entry, cmd, mainVars, targets, exit_status, rom, rom_called,
                   worldVars, restoreVars>>

\* restore_directory: libarchive_tar_extract
B_Extract ==
    /\ pc = "b_extract"
    /\ \E ok \in BOOLEAN :
          /\ Op(IF ok THEN "extract_ok" ELSE "extract_fail")
          /\ body_ret' = ok
          /\ AfterBody(ok)
    /\ UNCHANGED <<fileVars, sizeVars, entry, cmd, mainVars, targets, exit_status, rom, rom_called,
                   worldVars, restoreVars>>

\* restore_image: mkdir_parent(image)
I_MkdirParent ==
    /\ pc = "i_mkdir_parent"
    /\ \/ /\ Op("mkdir_parent_ok")
          /\ pc' = "i_stat_image"
          /\ UNCHANGED <<steps, rom_ret>>
       \/ /\ Op("mkdir_parent_fail")
          /\ StepReturn(PartitionResult(FALSE))
    /\ UNCHANGED <<fileVars, sizeVars, entry, cmd, mainVars, targets, exit_status, rom, rom_called,
                   body_ret, worldVars, restoreVars>>

\* variant: restore_image goes on when create_ext4_image failed
I_StatImage_createFailureIgnored ==
    /\ pc = "i_stat_image"
    /\ \/ Op("image_exists") /\ UNCHANGED created_size
       \/ /\ \E made \in {"create_image_ok", "create_image_fail"} :
                ops' = ops \o <<"image_enoent", made>>
          /\ created_size' = image_size
    /\ pc' = "i_mkdir_mnt"
    /\ UNCHANGED <<steps, rom_ret>>
    /\ UNCHANGED <<fileVars, image_size, entry, cmd, mainVars, targets, exit_status, rom,
                   rom_called, body_ret, worldVars, restoreVars>>

\* restore_image: stat(image), create_ext4_image on ENOENT
I_StatImage ==
    /\ pc = "i_stat_image"
    /\ \/ /\ Op("image_exists")
          /\ pc' = "i_mkdir_mnt"
          /\ UNCHANGED <<steps, rom_ret, created_size>>
       \/ /\ Op("image_stat_error")
          /\ StepReturn(PartitionResult(FALSE))
          /\ UNCHANGED created_size
       \/ /\ ops' = ops \o <<"image_enoent", "create_image_ok">>
          /\ created_size' = image_size
          /\ pc' = "i_mkdir_mnt"
          /\ UNCHANGED <<steps, rom_ret>>
       \/ /\ ops' = ops \o <<"image_enoent", "create_image_fail">>
          /\ created_size' = image_size
          /\ StepReturn(PartitionResult(FALSE))
    /\ UNCHANGED <<fileVars, image_size, entry, cmd, mainVars, targets, exit_status, rom, rom_called,
                   body_ret, worldVars, restoreVars>>

\* mkdir_recursive(BACKUP_MNT_DIR): an existing directory is not an error
I_MkdirMnt ==
    /\ pc = "i_mkdir_mnt"
    /\ \/ /\ mnt_exists
          /\ Op("mkdir_mnt_exists")
          /\ pc' = "i_fsck"
          /\ UNCHANGED <<steps, rom_ret, mnt_exists>>
       \/ /\ ~mnt_exists
          /\ Op("mkdir_mnt_ok")
          /\ mnt_exists' = TRUE
          /\ pc' = "i_fsck"
          /\ UNCHANGED <<steps, rom_ret>>
       \/ /\ ~mnt_exists
          /\ Op("mkdir_mnt_fail")
          /\ StepReturn(PartitionResult(FALSE))
          /\ UNCHANGED mnt_exists
    /\ UNCHANGED <<fileVars, sizeVars, entry, cmd, mainVars, targets, exit_status, rom, rom_called,
                   body_ret, mnt_count, restoreVars>>

\* fsck_ext4_image(image): result not looked at
I_Fsck ==
    /\ pc = "i_fsck"
    /\ Op("fsck")
    /\ pc' = "i_mount"
    /\ UNCHANGED <<fileVars, sizeVars, entry, cmd, mainVars, targets, exit_status, rom, rom_called, rom_ret,
                   steps, body_ret, worldVars, restoreVars>>

\* util::mount(image, BACKUP_MNT_DIR, "ext4", ...)
I_Mount ==
    /\ pc = "i_mount"
    /\ \/ /\ Op("mount_ok")
          /\ mnt_count' = mnt_count + 1
          /\ pc' = IF cmd = "backup" THEN "b_archive" ELSE "b_wipe"
          /\ UNCHANGED <<steps, rom_ret>>
       \/ /\ Op("mount_fail")
          /\ StepReturn(PartitionResult(FALSE))
          /\ UNCHANGED mnt_count
    /\ UNCHANGED <<fileVars, sizeVars, entry, cmd, mainVars, targets, exit_status, rom, rom_called,
                   body_ret, mnt_exists, restoreVars>>

\* variant: a failed umount does not end the step: rmdir, then `return ret`
I_Umount_failureNotFatal ==
    /\ pc = "i_umount"
    /\ \/ Op("umount_ok") /\ mnt_count' = mnt_count - 1
       \/ Op("umount_fail") /\ UNCHANGED mnt_count
    /\ pc' = "i_rmdir"
    /\ UNCHANGED <<steps, rom_ret>>
    /\ UNCHANGED <<fileVars, sizeVars, entry, cmd, mainVars, targets, exit_status, rom,
                   rom_called, body_ret, mnt_exists, restoreVars>>

\* util::umount(BACKUP_MNT_DIR)
I_Umount ==
    /\ pc = "i_umount"
    /\ \/ /\ Op("umount_ok")
          /\ mnt_count' = mnt_count - 1
          /\ pc' = "i_rmdir"
          /\ UNCHANGED <<steps, rom_ret>>
       \/ /\ Op("umount_fail")
          /\ StepReturn(PartitionResult(FALSE))
          /\ UNCHANGED mnt_count
    /\ UNCHANGED <<fileVars, sizeVars, entry, cmd, mainVars, targets, exit_status, rom, rom_called,
                   body_ret, mnt_exists, restoreVars>>

\* rmdir(BACKUP_MNT_DIR), result not looked at; `return ret;`
I_Rmdir ==
    /\ pc = "i_rmdir"
    /\ \/ /\ mnt_count = 0
          /\ Op("rmdir_ok")
          /\ mnt_exists' = FALSE
       \/ /\ Op("rmdir_fail")
          /\ UNCHANGED mnt_exists
    /\ StepReturn(PartitionResult(body_ret))
    /\ UNCHANGED <<fileVars, sizeVars, entry, cmd, mainVars, targets, exit_status, rom, rom_called,
                   body_ret, mnt_count, restoreVars>>

\* `return true;` at the end of backup_rom / restore_rom
R_True ==
    /\ pc = "r_true"
    /\ rom_ret' = "true"
    /\ pc' = "r_return"
    /\ UNCHANGED <<fileVars, sizeVars, entry, cmd, mainVars, targets, exit_status, rom, rom_called,
                   stepVars, worldVars, restoreVars>>

\* back in the caller: the command maps the result to its exit status
R_Return ==
    /\ pc = "r_return"
    /\ pc' = "done"
    /\ exit_status' = IF entry = "main"
                      THEN (IF rom_ret = "true" THEN EXIT_SUCCESS ELSE EXIT_FAILURE)
                      ELSE exit_status
    /\ UNCHANGED <<fileVars, sizeVars, entry, cmd, mainVars, targets, rom, rom_called, rom_ret,
                   stepVars, worldVars, restoreVars>>

Next ==
    \/ M_FormatTime
    \/ M_Opts
    \/ M_Romid
    \/ M_NameGiven
    \/ M_Targets
    \/ M_Name
    \/ M_Mounted
    \/ M_Rom
    \/ M_Dir
    \/ M_Mkdir
    \/ RomEntry
    \/ R_MkdirHk
    \/ R_Boot
    \/ R_Config
    \/ R_FixPerm
    \/ R_Partition("System")
    \/ R_Partition("Cache")
    \/ R_Partition("Data")
    \/ B_Archive
    \/ B_Wipe
    \/ B_Extract
    \/ I_MkdirParent
    \/ I_StatImage
    \/ I_MkdirMnt
    \/ I_Fsck
    \/ I_Mount
    \/ I_Umount
    \/ I_Rmdir
    \/ R_True
    \/ R_Return

Spec == Init /\ [][Next]_vars

(***************************************************************************)
(* parse_targets_string on its own                                         *)
(***************************************************************************)
InitTargets ==
    /\ Defaults
    /\ conf = NoConf
    /\ boot = NoBoot
    /\ tree = NoTree
    /\ inv = NoInv
    /\ entry = "direct"
    /\ cmd = "backup"
    /\ pc = "parse"
    /\ targets_str \in TargetStrings(MaxTargetsLen)
    /\ targets = 0
    /\ rom = NoRom
    /\ rom_called = FALSE
    /\ mnt_exists = FALSE

ParseTargets ==
    /\ pc = "parse"
    /\ targets' = parse_targets_string(targets_str)
    /\ pc' = "parsed"
    /\ UNCHANGED <<fileVars, sizeVars, entry, cmd, mainVars, exit_status, rom, rom_called, rom_ret,
                   stepVars, worldVars, restoreVars>>

NextTargets == ParseTargets

SpecTargets == InitTargets /\ [][NextTargets]_vars

(***************************************************************************)
(* SpecConfig: backup_configs / restore_configs, call by call              *)
(***************************************************************************)
\* the path each copy reads and the path it writes
ConfigSource(c) == IF c = "backup" THEN "config_path" ELSE "config_backup"
ConfigDest(c) == IF c = "backup" THEN "config_backup" ELSE "config_path"
ThumbnailSource(c) == IF c = "backup" THEN "thumbnail_path" ELSE "thumbnail_backup"
ThumbnailDest(c) == IF c = "backup" THEN "thumbnail_backup" ELSE "thumbnail_path"

InitConfig ==
    /\ Defaults
    /\ boot = NoBoot
    /\ tree = NoTree
    /\ inv = NoInv
    /\ targets_str = Str("all")
    /\ entry = "direct"
    /\ cmd \in {"backup", "restore"}
    /\ pc = "c_entry"
    /\ conf \in ConfigFiles(cmd)
    /\ targets = BACKUP_TARGET_CONFIG
    /\ rom = NoRom
    /\ rom_called = FALSE
    /\ mnt_exists = FALSE

configFrame == <<boot, tree, inv, sizeVars, entry, cmd, mainVars, targets, exit_status, rom,
                 rom_called, rom_ret, body_ret, worldVars, restoreVars>>

\* return <result> from the step
ConfigReturn(result) ==
    /\ steps' = Append(steps, [step |-> "Config", result |-> result])
    /\ pc' = "c_done"

\* Result ret = Result::SUCCEEDED
C_Entry ==
    /\ pc = "c_entry"
    /\ conf' = [conf EXCEPT !.ret = SUCCEEDED]
    /\ pc' = "c_stat_config"
    /\ UNCHANGED <<configFrame, steps, ops>>

\* variant: a missing config file ends the step at once
C_StatConfig_returnsMissing ==
    /\ pc = "c_stat_config"
    /\ IF conf[ConfigSource(cmd)] # Absent
       THEN Op("config_exists") /\ pc' = "c_copy_config" /\ UNCHANGED <<conf, steps>>
       ELSE Op("config_missing") /\ ConfigReturn(FILES_MISSING) /\ UNCHANGED conf
    /\ UNCHANGED configFrame

\* stat of the config source
C_StatConfig ==
    /\ pc = "c_stat_config"
    /\ IF conf[ConfigSource(cmd)] # Absent
       THEN Op("config_exists") /\ pc' = "c_copy_config" /\ UNCHANGED conf
       ELSE /\ Op("config_missing")
            /\ conf' = [conf EXCEPT !.ret = FILES_MISSING]
            /\ pc' = "c_stat_thumbnail"
    /\ UNCHANGED <<configFrame, steps>>

\* util::copy_file of the config source; a failed copy may leave a partial file
C_CopyConfig ==
    /\ pc = "c_copy_config"
    /\ \/ /\ Op("config_copy_ok")
          /\ conf' = [conf EXCEPT ![ConfigDest(cmd)] = conf[ConfigSource(cmd)]]
          /\ pc' = "c_stat_thumbnail"
          /\ UNCHANGED steps
       \/ /\ Op("config_copy_fail")
          /\ \E left \in {conf[ConfigDest(cmd)], Partial} :
                conf' = [conf EXCEPT ![ConfigDest(cmd)] = left]
          /\ ConfigReturn(FAILED)
    /\ UNCHANGED configFrame

\* stat of the thumbnail source
C_StatThumbnail ==
    /\ pc = "c_stat_thumbnail"
    /\ IF conf[ThumbnailSource(cmd)] # Absent
       THEN Op("thumbnail_exists") /\ pc' = "c_copy_thumbnail" /\ UNCHANGED conf
       ELSE /\ Op("thumbnail_missing")
            /\ conf' = [conf EXCEPT !.ret = FILES_MISSING]
            /\ pc' = "c_return"
    /\ UNCHANGED <<configFrame, steps>>

\* util::copy_file of the thumbnail source
C_CopyThumbnail ==
    /\ pc = "c_copy_thumbnail"
    /\ \/ /\ Op("thumbnail_copy_ok")
          /\ conf' = [conf EXCEPT ![ThumbnailDest(cmd)] = conf[ThumbnailSource(cmd)]]
          /\ pc' = "c_return"
          /\ UNCHANGED steps
       \/ /\ Op("thumbnail_copy_fail")
          /\ \E left \in {conf[ThumbnailDest(cmd)], Partial} :
                conf' = [conf EXCEPT ![ThumbnailDest(cmd)] = left]
          /\ ConfigReturn(FAILED)
    /\ UNCHANGED configFrame

\* return ret
C_Return ==
    /\ pc = "c_return"
    /\ ConfigReturn(conf.ret)
    /\ UNCHANGED <<configFrame, conf, ops>>

NextConfig ==
    \/ C_Entry
    \/ C_StatConfig
    \/ C_CopyConfig
    \/ C_StatThumbnail
    \/ C_CopyThumbnail
    \/ C_Return

SpecConfig == InitConfig /\ [][NextConfig]_vars

(***************************************************************************)
(* SpecBoot: backup_boot_image / restore_boot_image, call by call          *)
(***************************************************************************)
InitBoot ==
    /\ Defaults
    /\ conf = NoConf
    /\ tree = NoTree
    /\ inv = NoInv
    /\ targets_str = Str("all")
    /\ entry = "direct"
    /\ cmd \in {"backup", "restore"}
    /\ pc = IF cmd = "backup" THEN "t_stat_live" ELSE "t_stat_artifact"
    /\ boot \in BootFiles(cmd)
    /\ targets = BACKUP_TARGET_BOOT
    /\ rom = NoRom
    /\ rom_called = FALSE
    /\ mnt_exists = FALSE

bootFrame == <<conf, tree, inv, sizeVars, entry, cmd, mainVars, targets, exit_status, rom,
               rom_called, rom_ret, body_ret, worldVars, restoreVars>>

\* return <result> from the step
BootReturn(result) ==
    /\ steps' = Append(steps, [step |-> "Boot", result |-> result])
    /\ pc' = "t_done"

\* backup_boot_image: stat(boot_image_path)
T_StatLive ==
    /\ pc = "t_stat_live"
    /\ IF boot.live # NoImage
       THEN Op("live_exists") /\ pc' = "t_copy" /\ UNCHANGED steps
       ELSE Op("live_missing") /\ BootReturn(FILES_MISSING)
    /\ UNCHANGED <<bootFrame, boot>>

\* backup_boot_image: util::copy_file(boot_image_path, boot_image_backup)
T_Copy ==
    /\ pc = "t_copy"
    /\ \/ /\ Op("copy_ok")
          /\ boot' = [boot EXCEPT !.bundle = boot.live]
          /\ BootReturn(SUCCEEDED)
       \/ /\ Op("copy_fail")
          /\ \E left \in {boot.bundle, PartialImage} :
                boot' = [boot EXCEPT !.bundle = left]
          /\ BootReturn(FAILED)
    /\ UNCHANGED bootFrame

\* variant: restore_boot_image goes on to loadFile when the artifact is missing
T_StatArtifact_loadsAnyway ==
    /\ pc = "t_stat_artifact"
    /\ Op(IF boot.bundle # NoImage THEN "artifact_exists" ELSE "artifact_missing")
    /\ pc' = "t_load_file"
    /\ UNCHANGED <<bootFrame, boot, steps>>

\* restore_boot_image: stat(boot_image_backup)
T_StatArtifact ==
    /\ pc = "t_stat_artifact"
    /\ IF boot.bundle # NoImage
       THEN Op("artifact_exists") /\ pc' = "t_load_file" /\ UNCHANGED steps
       ELSE Op("artifact_missing") /\ BootReturn(FILES_MISSING)
    /\ UNCHANGED <<bootFrame, boot>>

\* bi.loadFile(boot_image_backup); a file that is not there cannot be loaded
T_LoadFile ==
    /\ pc = "t_load_file"
    /\ \/ /\ boot.bundle # NoImage
          /\ Op("load_file_ok")
          /\ boot' = [boot EXCEPT !.bi = BootImageLoad(boot.bundle, boot.target_of)]
          /\ pc' = "t_cpio_load"
          /\ UNCHANGED steps
       \/ /\ Op("load_file_fail")
          /\ BootReturn(FAILED)
          /\ UNCHANGED boot
    /\ UNCHANGED bootFrame

\* cpio.load(bi.ramdiskImage())
T_CpioLoad ==
    /\ pc = "t_cpio_load"
    /\ \/ /\ Op("cpio_load_ok")
          /\ boot' = [boot EXCEPT !.cpio = CpioLoad(boot.bi.ramdisk)]
          /\ pc' = "t_set_romid"
          /\ UNCHANGED steps
       \/ /\ Op("cpio_load_fail")
          /\ BootReturn(FAILED)
          /\ UNCHANGED boot
    /\ UNCHANGED bootFrame

\* variant: the new romid file is added without removing the one that is there
T_SetRomId_noRemove ==
    /\ pc = "t_set_romid"
    /\ ops' = ops \o <<"cpio_add_file">>
    /\ boot' = [boot EXCEPT !.cpio = CpioAddFile(boot.cpio, boot.id, "romid", "0664")]
    /\ pc' = "t_create_data"
    /\ UNCHANGED <<bootFrame, steps>>

\* data(rom->id); cpio.remove("romid"); cpio.addFile(data, "romid", 0664):
\* the two results are not looked at
T_SetRomId ==
    /\ pc = "t_set_romid"
    /\ ops' = ops \o <<"cpio_remove", "cpio_add_file">>
    /\ boot' = [boot EXCEPT !.cpio = CpioAddFile(CpioRemove(boot.cpio, "romid"),
                                                 boot.id, "romid", "0664")]
    /\ pc' = "t_create_data"
    /\ UNCHANGED <<bootFrame, steps>>

\* cpio.createData(&new_ramdisk)
T_CreateData ==
    /\ pc = "t_create_data"
    /\ \/ /\ Op("create_data_ok")
          /\ boot' = [boot EXCEPT !.new_ramdisk = CpioCreateData(boot.cpio)]
          /\ pc' = "t_set_ramdisk"
          /\ UNCHANGED steps
       \/ /\ Op("create_data_fail")
          /\ BootReturn(FAILED)
          /\ UNCHANGED boot
    /\ UNCHANGED bootFrame

\* bi.setRamdiskImage(std::move(new_ramdisk))
T_SetRamdisk ==
    /\ pc = "t_set_ramdisk"
    /\ Op("set_ramdisk")
    /\ boot' = [boot EXCEPT !.bi.ramdisk = boot.new_ramdisk, !.new_ramdisk = <<>>]
    /\ pc' = "t_was_type"
    /\ UNCHANGED <<bootFrame, steps>>

\* variant: the aboot partition is read whatever the type of the loaded image
T_WasType_always ==
    /\ pc = "t_was_type"
    /\ pc' = "t_read_aboot"
    /\ UNCHANGED <<bootFrame, boot, steps, ops>>

\* `if (bi.wasType() == mbp::BootImage::Type::Loki)`
T_WasType ==
    /\ pc = "t_was_type"
    /\ pc' = IF boot.bi.wasType = "Loki" THEN "t_read_aboot" ELSE "t_create_file"
    /\ UNCHANGED <<bootFrame, boot, steps, ops>>

\* util::file_read_all(ABOOT_PARTITION, &aboot_image), then
\* bi.setAbootImage(aboot_image); bi.setTargetType(Loki)
T_ReadAboot ==
    /\ pc = "t_read_aboot"
    /\ \/ /\ ops' = ops \o <<"read_aboot_ok", "set_aboot", "set_target_loki">>
          /\ boot' = [boot EXCEPT !.bi.aboot = AbootDevice, !.bi.targetType = "Loki"]
          /\ pc' = "t_create_file"
          /\ UNCHANGED steps
       \/ /\ Op("read_aboot_fail")
          /\ BootReturn(FAILED)
          /\ UNCHANGED boot
    /\ UNCHANGED bootFrame

\* bi.createFile(boot_image_path); a failed write may leave a partial file
T_CreateFile ==
    /\ pc = "t_create_file"
    /\ \/ /\ Op("create_file_ok")
          /\ boot' = [boot EXCEPT !.live = BootImageCreate(boot.bi)]
          /\ BootReturn(SUCCEEDED)
       \/ /\ Op("create_file_fail")
          /\ \E left \in {boot.live, PartialImage} :
                boot' = [boot EXCEPT !.live = left]
          /\ BootReturn(FAILED)
    /\ UNCHANGED bootFrame

\* the step is called again, for the same ROM and on the same bundle
T_Again ==
    /\ pc = "t_done"
    /\ boot.run < MaxBootRuns
    /\ boot' = [boot EXCEPT !.run = boot.run + 1,
                            !.prev_result = steps[Len(steps)].result,
                            !.live_before = boot.live,
                            !.bundle_before = boot.bundle,
                            !.bi = NoBi, !.cpio = <<>>, !.new_ramdisk = <<>>]
    /\ ops' = <<>>
    /\ pc' = IF cmd = "backup" THEN "t_stat_live" ELSE "t_stat_artifact"
    /\ UNCHANGED <<bootFrame, steps>>

NextBoot ==
    \/ T_StatLive
    \/ T_Copy
    \/ T_StatArtifact
    \/ T_LoadFile
    \/ T_CpioLoad
    \/ T_SetRomId
    \/ T_CreateData
    \/ T_SetRamdisk
    \/ T_WasType
    \/ T_ReadAboot
    \/ T_CreateFile
    \/ T_Again

SpecBoot == InitBoot /\ [][NextBoot]_vars

(***************************************************************************)
(* SpecTree: backup_directory, then restore_directory into an empty        *)
(* directory                                                               *)
(***************************************************************************)
\* std::find(exclusions.begin(), exclusions.end(), d_name) != exclusions.end()
InList(list, d_name) == \E i \in 1..Len(list) : list[i] = d_name

\* variant: an entry is skipped when its name begins with an excluded name
Skipped_byPrefix(d_name, exclusions) ==
    \/ d_name = Dot
    \/ d_name = DotDot
    \/ \E i \in 1..Len(exclusions) :
          /\ Len(exclusions[i]) <= Len(d_name)
          /\ SubSeq(d_name, 1, Len(exclusions[i])) = exclusions[i]

\* the test of the readdir loop: ".", ".." and the excluded names are skipped
Skipped(d_name, exclusions) ==
    \/ d_name = Dot
    \/ d_name = DotDot
    \/ InList(exclusions, d_name)

RECURSIVE readdir_loop(_, _, _)
\* the readdir loop of backup_directory: `contents` after the entries left to read
readdir_loop(listing, exclusions, contents) ==
    IF listing = <<>> THEN contents
    ELSE readdir_loop(Tail(listing), exclusions,
                      IF Skipped(Head(listing), exclusions)
                      THEN contents
                      ELSE Append(contents, Head(listing)))

\* libarchive_tar_extract into a directory: the members become entries
Extracted(dir, archive) == dir \cup {archive[i] : i \in 1..Len(archive)}

InitTree ==
    /\ Defaults
    /\ conf = NoConf
    /\ boot = NoBoot
    /\ inv = NoInv
    /\ targets_str = Str("all")
    /\ entry = "direct"
    /\ cmd = "backup"
    /\ pc = "d_opendir"
    /\ \E l \in Listings(MaxDirEntries), e \in ExclusionLists :
          tree = [NoTree EXCEPT !.listing = l, !.exclusions = e]
    /\ targets = BACKUP_TARGET_DATA
    /\ rom = NoRom
    /\ rom_called = FALSE
    /\ mnt_exists = FALSE

treeFrame == <<conf, boot, inv, sizeVars, entry, cmd, mainVars, targets, exit_status, rom,
               rom_called, rom_ret, stepVars, worldVars, restoreVars>>

\* backup_directory: opendir(directory)
D_Opendir ==
    /\ pc = "d_opendir"
    /\ \/ pc' = "d_readdir" /\ UNCHANGED tree
       \/ pc' = "d_done" /\ tree' = [tree EXCEPT !.backup_ret = "false"]
    /\ UNCHANGED treeFrame

\* backup_directory: the readdir loop and the test of errno after it
D_Readdir ==
    /\ pc = "d_readdir"
    /\ \/ /\ tree' = [tree EXCEPT
                         !.contents = readdir_loop(tree.listing, tree.exclusions, <<>>)]
          /\ pc' = "d_tar_create"
       \/ \E read \in 0..Len(tree.listing) :
             /\ tree' = [tree EXCEPT
                            !.contents = readdir_loop(SubSeq(tree.listing, 1, read),
                                                      tree.exclusions, <<>>),
                            !.backup_ret = "false"]
             /\ pc' = "d_done"
    /\ UNCHANGED treeFrame

\* backup_directory: util::libarchive_tar_create(output_file, directory, contents)
D_TarCreate ==
    /\ pc = "d_tar_create"
    /\ \/ /\ tree' = [tree EXCEPT !.archive = tree.contents, !.backup_ret = "true"]
          /\ pc' = "d_wipe"
       \/ /\ tree' = [tree EXCEPT !.backup_ret = "false"]
          /\ pc' = "d_done"
    /\ UNCHANGED treeFrame

\* restore_directory: wipe_directory of the empty directory
D_Wipe ==
    /\ pc = "d_wipe"
    /\ \/ pc' = "d_extract" /\ UNCHANGED tree
       \/ pc' = "d_done" /\ tree' = [tree EXCEPT !.restore_ret = "false"]
    /\ UNCHANGED treeFrame

\* restore_directory: util::libarchive_tar_extract; a failed extraction may
\* leave some of the members
D_Extract ==
    /\ pc = "d_extract"
    /\ \/ tree' = [tree EXCEPT !.target = Extracted(tree.target, tree.archive),
                               !.restore_ret = "true"]
       \/ \E some \in 0..Len(tree.archive) :
             tree' = [tree EXCEPT
                         !.target = Extracted(tree.target, SubSeq(tree.archive, 1, some)),
                         !.restore_ret = "false"]
    /\ pc' = "d_done"
    /\ UNCHANGED treeFrame

NextTree ==
    \/ D_Opendir
    \/ D_Readdir
    \/ D_TarCreate
    \/ D_Wipe
    \/ D_Extract

SpecTree == InitTree /\ [][NextTree]_vars

(***************************************************************************)
(* SpecTwo: two invocations, each in backup_image / restore_image, on the  *)
(* one BACKUP_MNT_DIR. inv.procs[i] is invocation i: where it is and its   *)
(* local `ret`; inv.stack is what is mounted at BACKUP_MNT_DIR, the        *)
(* invocation that mounted it, last mount last.                            *)
(***************************************************************************)
Invocations == {1, 2}

InitTwo ==
    /\ Defaults
    /\ conf = NoConf
    /\ boot = NoBoot
    /\ tree = NoTree
    /\ targets_str = Str("all")
    /\ entry = "direct"
    /\ cmd \in {"backup", "restore"}
    /\ pc = "two"
    /\ inv = [procs |-> [i \in Invocations |-> [pc |-> "x_mkdir_mnt", ret |-> "none"]],
              stack |-> <<>>]
    /\ targets = BACKUP_TARGET_SYSTEM
    /\ rom \in {r \in Roms : r["System"]}
    /\ rom_called = TRUE
    /\ mnt_exists \in BOOLEAN

twoFrame == <<conf, boot, tree, sizeVars, entry, cmd, pc, mainVars, targets, exit_status,
              rom, rom_called, rom_ret, stepVars, restoreVars>>

\* invocation i goes to `to`, its `ret` becoming r
Goes(i, to, r) == [inv.procs EXCEPT ![i] = [pc |-> to, ret |-> r]]
At(i) == inv.procs[i].pc

\* mkdir_recursive(BACKUP_MNT_DIR): an existing directory is not an error
X_MkdirMnt(i) ==
    /\ At(i) = "x_mkdir_mnt"
    /\ \/ /\ mnt_exists' = TRUE
          /\ inv' = [inv EXCEPT !.procs = Goes(i, "x_fsck", "none")]
       \/ /\ ~mnt_exists
          /\ inv' = [inv EXCEPT !.procs = Goes(i, "x_done", "false")]
          /\ UNCHANGED mnt_exists
    /\ UNCHANGED <<twoFrame, mnt_count>>

\* fsck_ext4_image(image)
X_Fsck(i) ==
    /\ At(i) = "x_fsck"
    /\ inv' = [inv EXCEPT !.procs = Goes(i, "x_mount", "none")]
    /\ UNCHANGED <<twoFrame, worldVars>>

\* variant: the mount waits until nothing is mounted at the mount point
X_Mount_locked(i) ==
    /\ At(i) = "x_mount"
    /\ inv.stack = <<>>
    /\ mnt_exists
    /\ \/ /\ inv' = [procs |-> Goes(i, "x_body", "none"), stack |-> Append(inv.stack, i)]
          /\ mnt_count' = mnt_count + 1
       \/ /\ inv' = [inv EXCEPT !.procs = Goes(i, "x_done", "false")]
          /\ UNCHANGED mnt_count
    /\ UNCHANGED <<twoFrame, mnt_exists>>

\* util::mount(image, BACKUP_MNT_DIR, "ext4", ...): no test of what is
\* mounted there; it cannot succeed when the directory is gone
X_Mount(i) ==
    /\ At(i) = "x_mount"
    /\ \/ /\ mnt_exists
          /\ inv' = [procs |-> Goes(i, "x_body", "none"), stack |-> Append(inv.stack, i)]
          /\ mnt_count' = mnt_count + 1
       \/ /\ inv' = [inv EXCEPT !.procs = Goes(i, "x_done", "false")]
          /\ UNCHANGED mnt_count
    /\ UNCHANGED <<twoFrame, mnt_exists>>

\* bool ret = backup_directory / restore_directory(..., BACKUP_MNT_DIR, ...)
X_Body(i) ==
    /\ At(i) = "x_body"
    /\ \E r \in {"true", "false"} : inv' = [inv EXCEPT !.procs = Goes(i, "x_umount", r)]
    /\ UNCHANGED <<twoFrame, worldVars>>

\* util::umount(BACKUP_MNT_DIR): what was mounted last is unmounted
X_Umount(i) ==
    /\ At(i) = "x_umount"
    /\ \/ /\ inv.stack # <<>>
          /\ inv' = [procs |-> Goes(i, "x_rmdir", inv.procs[i].ret),
                     stack |-> SubSeq(inv.stack, 1, Len(inv.stack) - 1)]
          /\ mnt_count' = mnt_count - 1
       \/ /\ inv' = [inv EXCEPT !.procs = Goes(i, "x_done", "false")]
          /\ UNCHANGED mnt_count
    /\ UNCHANGED <<twoFrame, mnt_exists>>

\* rmdir(BACKUP_MNT_DIR), result not looked at; `return ret;`
X_Rmdir(i) ==
    /\ At(i) = "x_rmdir"
    /\ \/ inv.stack = <<>> /\ mnt_exists' = FALSE
       \/ UNCHANGED mnt_exists
    /\ inv' = [inv EXCEPT !.procs = Goes(i, "x_done", inv.procs[i].ret)]
    /\ UNCHANGED <<twoFrame, mnt_count>>

NextTwo ==
    \E i \in Invocations :
        \/ X_MkdirMnt(i)
        \/ X_Fsck(i)
        \/ X_Mount(i)
        \/ X_Body(i)
        \/ X_Umount(i)
        \/ X_Rmdir(i)

SpecTwo == InitTwo /\ [][NextTwo]_vars

(***************************************************************************)
(* Properties                                                              *)
(***************************************************************************)
StepIndex(step) == CHOOSE i \in 1..Len(Steps) : Steps[i] = step

Executed(step) == \E i \in 1..Len(steps) : steps[i].step = step

\* the selected steps that come after `step` in the fixed order
LaterSelected(step) ==
    {s \in {Steps[i] : i \in 1..Len(Steps)} :
        StepIndex(s) > StepIndex(step) /\ Selected(targets, s)}

\* the first selected step after `step`; only used when there is one
NextSelected(step) ==
    CHOOSE s \in LaterSelected(step) :
        \A o \in LaterSelected(step) : StepIndex(s) <= StepIndex(o)

RomReturned == rom_ret # "none"

NoStepFailed == \A i \in 1..Len(steps) : steps[i].result # FAILED

\* a Failed step is the last step of the run, and the run returns failure
FailedAborts ==
    \A i \in 1..Len(steps) :
        steps[i].result = FAILED => i = Len(steps) /\ rom_ret = "false"

\* C1 as stated: after each executed step the next selected step runs iff the
\* step did not return Failed; a Failed step is the last one and the call
\* returns failure, a Succeeded or FilesMissing step is followed by the next
\* selected step.
C1_AsStated ==
    /\ FailedAborts
    /\ RomReturned =>
          \A i \in 1..Len(steps) :
              steps[i].result \in {SUCCEEDED, FILES_MISSING}
                  /\ LaterSelected(steps[i].step) # {}
              => Executed(NextSelected(steps[i].step))

\* C1 amended: as C1, except that in restore_rom a Succeeded or FilesMissing
\* step whose next selected step is System is not followed by it when the
\* system partition size query fails; the call then returns failure and no
\* later step runs.
C1_StepAbortsIffFailed ==
    /\ FailedAborts
    /\ RomReturned =>
          \A i \in 1..Len(steps) :
              steps[i].result \in {SUCCEEDED, FILES_MISSING}
                  /\ LaterSelected(steps[i].step) # {}
              => \/ Executed(NextSelected(steps[i].step))
                 \/ /\ cmd = "restore"
                    /\ NextSelected(steps[i].step) = "System"
                    /\ size_query = 0
                    /\ rom_ret = "false"
                    /\ i = Len(steps)

\* a run in which the first step reported missing files, a later step failed
\* and a selected step after it never ran
C1_Witness ==
    /\ pc = "done"
    /\ Len(steps) >= 2
    /\ steps[1].result = FILES_MISSING
    /\ steps[Len(steps)].result = FAILED
    /\ LaterSelected(steps[Len(steps)].step) # {}
    /\ rom_ret = "false"

\* C2: the steps of one invocation run in the order Boot, Config, System,
\* Cache, Data; a step starts only when every step started before it has
\* returned, and no step runs twice.
C2_FixedOrder ==
    /\ \A i, j \in 1..Len(steps) :
          i < j => StepIndex(steps[i].step) < StepIndex(steps[j].step)
    /\ \A i \in 1..Len(steps) : steps[i].result = RUNNING => i = Len(steps)

\* all five steps ran
C2_Witness ==
    /\ pc = "done"
    /\ Len(steps) = 5
    /\ rom_ret = "true"

\* C3 as stated: with a non-empty target set the call returns success iff no
\* step returned Failed.
C3_AsStated ==
    RomReturned /\ targets # 0 => (rom_ret = "true" <=> NoStepFailed)

\* C3 amended: with a non-empty target set backup_rom returns success iff no
\* step returned Failed; restore_rom returns success iff no step returned
\* Failed, the housekeeping directory could be created and the system
\* partition size query, when made, did not fail.
C3_SuccessIffNothingFailed ==
    RomReturned /\ targets # 0 =>
        (rom_ret = "true" <=>
            NoStepFailed /\ hk_mkdir # "fail" /\ size_query # 0)

\* restore_rom returned failure although its steps reported only Succeeded or
\* FilesMissing: the size query failed
C3_Witness ==
    /\ pc = "done"
    /\ cmd = "restore"
    /\ steps # <<>>
    /\ NoStepFailed
    /\ size_query = 0
    /\ rom_ret = "false"

Count(seq, S) == Cardinality({i \in 1..Len(seq) : seq[i] \in S})

Position(seq, S) == CHOOSE i \in 1..Len(seq) : seq[i] \in S

LastStep == steps[Len(steps)]

\* the last partition step started has returned; ops holds its calls
PartitionStepReturned ==
    /\ steps # <<>>
    /\ LastStep.step \in Partitions
    /\ LastStep.result # RUNNING

ImageStepReturned == PartitionStepReturned /\ rom[LastStep.step]

UmountOps == {"umount_ok", "umount_fail"}
BodyOps == {"archive_ok", "archive_fail", "wipe_fail", "extract_ok", "extract_fail"}
BodyOkOps == {"archive_ok", "extract_ok"}

\* C4: in an image-mode step a successful mount is followed by exactly one
\* unmount attempt before the step returns, after the body and whatever the
\* body's outcome; without a successful mount no unmount is attempted.
C4_MountPairedWithUmount ==
    LET mounts == Count(ops, {"mount_ok"})
        umounts == Count(ops, UmountOps)
    IN  /\ mounts <= 1
        /\ umounts <= mounts
        /\ umounts = 1 =>
              /\ Position(ops, {"mount_ok"}) < Position(ops, UmountOps)
              /\ Count(ops, BodyOps) = 1
              /\ Position(ops, BodyOps) < Position(ops, UmountOps)
        /\ PartitionStepReturned => umounts = mounts

\* an image-mode restore whose extraction failed returned after unmounting
C4_Witness ==
    /\ ImageStepReturned
    /\ cmd = "restore"
    /\ Count(ops, {"mount_ok"}) = 1
    /\ Count(ops, {"extract_fail"}) = 1
    /\ Count(ops, UmountOps) = 1
    /\ LastStep.result = FAILED

\* C5: when an image-mode step that created or mounted the mount point
\* returns, nothing is mounted at the mount point and its directory is gone.
C5_MountPointReleased ==
    ImageStepReturned /\ Count(ops, {"mkdir_mnt_ok", "mount_ok"}) > 0
        => mnt_count = 0 /\ ~mnt_exists

\* C6: an image-mode step whose body succeeded returns Succeeded even when
\* the unmount fails, and the ROM operation is not aborted.
C6_UmountFailureNotFatal ==
    ImageStepReturned /\ Count(ops, BodyOkOps) = 1 /\ Count(ops, {"umount_fail"}) = 1
        => LastStep.result = SUCCEEDED /\ rom_ret # "false"

\* C7: backup_rom / restore_rom called with no target returns failure at
\* once: no step, no collaborator call, no housekeeping directory, no
\* permission repair, no size query.
C7_EmptyTargetsRejected ==
    rom_called /\ targets = 0 /\ pc # "r_entry" =>
        /\ pc \in {"r_return", "done"}
        /\ rom_ret = "false"
        /\ steps = <<>>
        /\ ops = <<>>
        /\ mnt_count = 0
        /\ hk_mkdir = "none"
        /\ ~perms_fixed
        /\ size_query = NotQueried

\* restore_rom was called with no target and has returned
C7_Witness ==
    /\ cmd = "restore"
    /\ targets = 0
    /\ pc = "done"
    /\ rom_ret = "false"

ValidTokens == {Str(w) : w \in Words \ {"x"}}

\* the targets a valid token names
TokenTargets(tok) ==
    IF tok = Str("all") THEN {"System", "Cache", "Data", "Boot", "Config"}
    ELSE IF tok = Str("system") THEN {"System"}
    ELSE IF tok = Str("cache") THEN {"Cache"}
    ELSE IF tok = Str("data") THEN {"Data"}
    ELSE IF tok = Str("boot") THEN {"Boot"}
    ELSE {"Config"}

\* the targets whose bit is set in a mask
MaskTargets(t) == {s \in {Steps[i] : i \in 1..Len(Steps)} : Selected(t, s)}

\* the token boundaries of a string: before it, after it, and each comma
Boundaries(str) == {0, Len(str) + 1} \cup {i \in 1..Len(str) : str[i] = Comma}

\* the tokens of a string: what lies between two neighbouring boundaries
TokensOf(str) ==
    {SubSeq(str, a + 1, b - 1) : <<a, b>> \in
        {ab \in Boundaries(str) \X Boundaries(str) :
            /\ ab[1] < ab[2]
            /\ \A c \in Boundaries(str) : ~(ab[1] < c /\ c < ab[2])}}

\* C8: parse_targets_string is all-or-nothing: one token that is not a target
\* name makes the result 0 wherever it stands, the empty input gives 0, and
\* otherwise the result has exactly the bits of the targets named.
C8_ParseAllOrNothing ==
    pc = "parsed" =>
        /\ targets \in 0..BACKUP_TARGET_ALL
        /\ targets_str = <<>> => targets = 0
        /\ IF \E tok \in TokensOf(targets_str) : tok \notin ValidTokens
           THEN targets = 0
           ELSE MaskTargets(targets) =
                    UNION {TokenTargets(tok) : tok \in TokensOf(targets_str)}

\* "system,x": a valid token followed by an unknown one
C8_Witness ==
    /\ pc = "parsed"
    /\ targets_str = <<"system", Comma, "x">>
    /\ targets = 0

RECURSIVE Join(_)
\* the tokens of a list, separated by commas
Join(toks) ==
    IF Len(toks) = 0 THEN <<>>
    ELSE IF Len(toks) = 1 THEN toks[1]
    ELSE toks[1] \o <<Comma>> \o Join(Tail(toks))

Perms(n) == {f \in [1..n -> 1..n] : \A i, j \in 1..n : f[i] = f[j] => i = j}

AllByName ==
    <<"system", Comma, "cache", Comma, "data", Comma, "boot", Comma, "config">>

\* C9: for a list of valid tokens the result does not change when the tokens
\* are permuted or one of them is repeated, and a list containing "all"
\* parses to the same result as "system,cache,data,boot,config".
C9_ParseDependsOnTokenSet ==
    LET toks == split(targets_str, Comma)
    IN  pc = "parsed" /\ (\A i \in 1..Len(toks) : toks[i] \in ValidTokens) =>
            /\ \A f \in Perms(Len(toks)) :
                  parse_targets_string(Join([i \in 1..Len(toks) |-> toks[f[i]]])) = targets
            /\ \A i \in 1..Len(toks) :
                  parse_targets_string(Join(Append(toks, toks[i]))) = targets
            /\ (\E i \in 1..Len(toks) : toks[i] = Str("all")) =>
                  targets = parse_targets_string(AllByName)

\* "data,system": two different valid tokens, so that a permutation is another input
C9_Witness ==
    /\ pc = "parsed"
    /\ targets_str = <<"data", Comma, "system">>
    /\ targets = 5

\* non-empty, first character not '.', no "..", no '/'
NameAcceptable(n) ==
    /\ Len(n) > 0
    /\ n[1] # "."
    /\ ~\E i \in 1..(Len(n) - 1) : n[i] = "." /\ n[i + 1] = "."
    /\ ~\E i \in 1..Len(n) : n[i] = "/"

\* C10: is_valid_backup_name accepts a name iff it is non-empty, does not
\* start with '.', and contains neither ".." nor '/'; a command whose name
\* check rejects the name exits with failure without entering backup_rom /
\* restore_rom, and no command runs a step on a name that is not acceptable.
C10_NameValidation ==
    /\ is_valid_backup_name(name) <=> NameAcceptable(name)
    /\ name_checked = "accepted" => NameAcceptable(name)
    /\ name_checked = "rejected" =>
          /\ ~NameAcceptable(name)
          /\ pc = "done"
          /\ exit_status = EXIT_FAILURE
          /\ ~rom_called
          /\ steps = <<>>
    /\ entry = "main" /\ (rom_called \/ steps # <<>>) =>
          name_checked = "accepted" /\ NameAcceptable(name)

\* the restore command rejected the name "a.."
C10_Witness ==
    /\ entry = "main"
    /\ cmd = "restore"
    /\ name = <<"a", ".", ".">>
    /\ name_checked = "rejected"
    /\ exit_status = EXIT_FAILURE
    /\ pc = "done"

(***************************************************************************)
(* C11  Config/Thumbnail step: result and order of the two copies          *)
(***************************************************************************)
ConfigOps == {"config_exists", "config_missing", "config_copy_ok", "config_copy_fail"}
ThumbnailOps == {"thumbnail_exists", "thumbnail_missing", "thumbnail_copy_ok",
                 "thumbnail_copy_fail"}
ConfigStepReturned == pc = "c_done" /\ Len(steps) = 1
ConfigResult == steps[1].result
InOps(o) == \E i \in 1..Len(ops) : ops[i] = o

\* C11: when backup_configs or restore_configs has returned: every call about
\* the config file came before every call about the thumbnail; the result is
\* Failed exactly when a copy failed, and only an existing source is copied; a
\* failed config copy left the thumbnail unexamined and its destination as it
\* was; without a failed copy the result is FilesMissing exactly when one of
\* the sources is absent, and Succeeded otherwise; an absent source did not
\* keep the other source from being copied, and every copy that succeeded
\* left the source's content at the destination.
C11_ConfigStepResult ==
    ConfigStepReturned =>
        LET cs == conf[ConfigSource(cmd)]
            ts == conf[ThumbnailSource(cmd)]
            cd == conf[ConfigDest(cmd)]
            td == conf[ThumbnailDest(cmd)]
            td0 == conf[IF cmd = "backup" THEN "thumbnail_backup0" ELSE "thumbnail_path0"]
            cd0 == conf[IF cmd = "backup" THEN "config_backup0" ELSE "config_path0"]
        IN  /\ \A i, j \in 1..Len(ops) :
                   ops[i] \in ConfigOps /\ ops[j] \in ThumbnailOps => i < j
            /\ ConfigResult = FAILED
                   <=> InOps("config_copy_fail") \/ InOps("thumbnail_copy_fail")
            /\ InOps("config_copy_fail") \/ InOps("config_copy_ok") => cs # Absent
            /\ InOps("thumbnail_copy_fail") \/ InOps("thumbnail_copy_ok") => ts # Absent
            /\ InOps("config_copy_fail")
                   => (\A i \in 1..Len(ops) : ops[i] \notin ThumbnailOps) /\ td = td0
            /\ ConfigResult # FAILED
                   => /\ ConfigResult = FILES_MISSING <=> cs = Absent \/ ts = Absent
                      /\ ConfigResult = SUCCEEDED <=> cs # Absent /\ ts # Absent
            /\ cs = Absent /\ ts # Absent
                   => InOps("thumbnail_copy_ok") \/ InOps("thumbnail_copy_fail")
            /\ ts = Absent /\ cs # Absent
                   => InOps("config_copy_ok") \/ InOps("config_copy_fail")
            /\ InOps("config_copy_ok") => cd = cs
            /\ InOps("thumbnail_copy_ok") => td = ts
            /\ cs = Absent => cd = cd0
            /\ ts = Absent => td = td0

\* the config file is absent, the thumbnail was copied, the step returned FilesMissing
C11_Witness ==
    /\ ConfigStepReturned
    /\ conf[ConfigSource(cmd)] = Absent
    /\ InOps("thumbnail_copy_ok")
    /\ conf[ThumbnailDest(cmd)] = conf[ThumbnailSource(cmd)]
    /\ ConfigResult = FILES_MISSING
(***************************************************************************)
(* C12, C13  a partition step whose input does not exist                   *)
(***************************************************************************)
\* this step of the run begins a System, Cache or Data step
PartitionStepStarts ==
    /\ Len(steps') = Len(steps) + 1
    /\ steps'[Len(steps')].step \in Partitions

C12_MissingPathStep ==
    cmd = "backup" /\ PartitionStepStarts
        => /\ steps'[Len(steps')].result = FILES_MISSING <=> ops'[1] = "path_missing"
           /\ ops'[1] = "path_missing"
                 => /\ ops' = <<"path_missing">>
                    /\ pc' = NextPc(cmd, steps'[Len(steps')].step)
                    /\ UNCHANGED <<worldVars, fileVars>>

\* C12: backup_partition returns FilesMissing exactly when the stat of the live
\* path fails, and then the stat is the only call it makes: no archive is
\* written, the mount point is not created, nothing is mounted or checked, in
\* image mode and in directory mode, and control is at the next step.
C12_BackupMissingPath == [][C12_MissingPathStep]_vars

\* an image-mode backup step returned FilesMissing while the mount point does not exist
C12_Witness ==
    /\ cmd = "backup"
    /\ PartitionStepReturned
    /\ rom[LastStep.step]
    /\ LastStep.result = FILES_MISSING
    /\ ops = <<"path_missing">>
    /\ ~mnt_exists
    /\ mnt_count = 0

C13_MissingArchiveStep ==
    cmd = "restore" /\ PartitionStepStarts
        => /\ steps'[Len(steps')].result = FILES_MISSING <=> ops'[1] = "archive_missing"
           /\ ops'[1] = "archive_missing"
                 => /\ ops' = <<"archive_missing">>
                    /\ created_size' = NoSize
                    /\ pc' = NextPc(cmd, steps'[Len(steps')].step)
                    /\ UNCHANGED <<worldVars, fileVars>>

\* C13: restore_partition returns FilesMissing exactly when the stat of the
\* archive fails, and then the stat is the only call it makes: the target is
\* not wiped, no parent directory or image file is created, the mount point is
\* not created and nothing is mounted, in image mode and in directory mode.
C13_RestoreMissingArchive == [][C13_MissingArchiveStep]_vars

\* an image-mode restore step returned FilesMissing, nothing created or mounted
C13_Witness ==
    /\ cmd = "restore"
    /\ PartitionStepReturned
    /\ rom[LastStep.step]
    /\ LastStep.result = FILES_MISSING
    /\ ops = <<"archive_missing">>
    /\ created_size = NoSize
    /\ ~mnt_exists
    /\ mnt_count = 0
(***************************************************************************)
(* C14  restore: wipe, then extract                                        *)
(***************************************************************************)
WipeOps == {"wipe_ok", "wipe_fail"}
ExtractOps == {"extract_ok", "extract_fail"}
\* a System, Cache or Data step of a restore has begun; ops holds its calls so far
RestoreStepBegun ==
    /\ cmd = "restore"
    /\ steps # <<>>
    /\ LastStep.step \in Partitions

\* C14: in a partition restore step, in directory mode and in image mode, the
\* target is wiped at most once and the archive is extracted at most once;
\* the extraction comes after a wipe that succeeded and is not attempted
\* after a wipe that failed; the step returns Succeeded only if the wipe and
\* the extraction both succeeded, and a step whose wipe or extraction failed
\* returns Failed.
C14_WipeThenExtract ==
    RestoreStepBegun =>
        /\ Count(ops, WipeOps) <= 1
        /\ Count(ops, ExtractOps) <= 1
        /\ \A i \in 1..Len(ops) :
              ops[i] \in ExtractOps => \E j \in 1..(i - 1) : ops[j] = "wipe_ok"
        /\ InOps("wipe_fail") => Count(ops, ExtractOps) = 0
        /\ LastStep.result = SUCCEEDED => InOps("wipe_ok") /\ InOps("extract_ok")
        /\ LastStep.result # RUNNING /\ (InOps("wipe_fail") \/ InOps("extract_fail"))
              => LastStep.result = FAILED

\* a restore step wiped, extracted and returned Succeeded
C14_Witness ==
    /\ RestoreStepBegun
    /\ LastStep.result = SUCCEEDED
    /\ \E i, j \in 1..Len(ops) : i < j /\ ops[i] = "wipe_ok" /\ ops[j] = "extract_ok"
(***************************************************************************)
(* C15  restore_image: the order of its calls                              *)
(***************************************************************************)
\* the place of a call in restore_partition / restore_image
Rank(o) ==
    CASE o \in {"archive_exists", "archive_missing"} -> 0
      [] o \in {"mkdir_parent_ok", "mkdir_parent_fail"} -> 1
      [] o \in {"image_exists", "image_enoent", "image_stat_error"} -> 2
      [] o \in {"create_image_ok", "create_image_fail"} -> 3
      [] o \in {"mkdir_mnt_exists", "mkdir_mnt_ok", "mkdir_mnt_fail"} -> 4
      [] o = "fsck" -> 5
      [] o \in {"mount_ok", "mount_fail"} -> 6
      [] o \in WipeOps -> 7
      [] o \in ExtractOps -> 8
      [] o \in UmountOps -> 9
      [] o \in {"rmdir_ok", "rmdir_fail"} -> 10
\* the op of that rank was made before ops[i]
Before(i, r) == \E j \in 1..(i - 1) : Rank(ops[j]) = r
CreateOps == {"create_image_ok", "create_image_fail"}

\* C15: in an image-mode restore step the calls are made at most once each and
\* in the order: parent directory, stat of the image, create_ext4_image,
\* mount-point directory, filesystem check, mount, wipe, extract, unmount. The
\* image is created only right after the stat found no file, with the size
\* passed to the step, and never when the stat found the image. When the
\* creation fails it is the last call and the step returns Failed. The check
\* follows the parent directory and an image that exists or was created, the
\* mount follows the check, the wipe follows a successful mount, and the
\* unmount follows the wipe.
C15_ImageRestoreOrder ==
    RestoreStepBegun /\ rom[LastStep.step] =>
        /\ \A i, j \in 1..Len(ops) : i < j => Rank(ops[i]) < Rank(ops[j])
        /\ \A i \in 1..Len(ops) :
              /\ ops[i] \in CreateOps => i > 1 /\ ops[i - 1] = "image_enoent"
              /\ ops[i] = "image_enoent" => i < Len(ops) /\ ops[i + 1] \in CreateOps
              /\ ops[i] = "fsck"
                    => /\ \E j \in 1..(i - 1) : ops[j] = "mkdir_parent_ok"
                       /\ \E j \in 1..(i - 1) : ops[j] \in {"image_exists", "create_image_ok"}
              /\ Rank(ops[i]) = 6 => ops[i - 1] = "fsck"
              /\ ops[i] \in WipeOps => ops[i - 1] = "mount_ok"
              /\ ops[i] \in UmountOps => Before(i, 7)
        /\ (\E i \in 1..Len(ops) : ops[i] \in CreateOps)
              <=> created_size # NoSize
        /\ created_size # NoSize => created_size = image_size /\ image_size # NoSize
        /\ InOps("image_exists") => created_size = NoSize
        /\ InOps("create_image_fail")
              => ops[Len(ops)] = "create_image_fail" /\ LastStep.result = FAILED
        /\ LastStep.result = SUCCEEDED
              => \A r \in {1, 2, 4, 5, 6, 7, 8, 9} : Before(Len(ops) + 1, r)

\* an image-mode restore step found no image, created it with the size it was
\* given, then checked, mounted, wiped, extracted, unmounted and returned Succeeded
C15_Witness ==
    /\ RestoreStepBegun
    /\ rom[LastStep.step]
    /\ LastStep.result = SUCCEEDED
    /\ InOps("create_image_ok")
    /\ created_size = image_size
    /\ \E i \in 1..Len(ops) :
          ops[i] = "fsck" /\ ops[i + 1] = "mount_ok" /\ ops[i + 2] = "wipe_ok"
              /\ ops[i + 3] = "extract_ok" /\ ops[i + 4] = "umount_ok"
(***************************************************************************)
(* C16  restore_rom: the size of the live system partition                 *)
(***************************************************************************)
\* C16: in restore_rom the size is queried only when System is selected, and a
\* System step runs only after a query that did not report 0. After a query
\* that reported 0 the run returns failure, no System, Cache or Data step
\* has run, and no call of a partition step was made: no image created,
\* nothing mounted. The System step is given the queried size; a Cache or
\* Data step is given DEFAULT_IMAGE_SIZE; an image is created with the size
\* its step was given.
C16_SystemSizeQuery ==
    cmd = "restore" =>
        /\ size_query # NotQueried => Selected(targets, "System")
        /\ Executed("System") => size_query \notin {NotQueried, 0}
        /\ size_query = 0
              => /\ rom_ret = "false"
                 /\ \A p \in Partitions : ~Executed(p)
                 /\ ops = <<>>
                 /\ image_size = NoSize /\ created_size = NoSize
                 /\ mnt_count = 0
        /\ steps # <<>> /\ LastStep.step = "System" => image_size = size_query
        /\ steps # <<>> /\ LastStep.step \in {"Cache", "Data"}
              => image_size = DEFAULT_IMAGE_SIZE
        /\ created_size # NoSize => created_size = image_size

\* System, Cache and Data were selected, the Boot step ran, the query reported
\* 0 and the run returned failure
C16_Witness ==
    /\ cmd = "restore"
    /\ Selected(targets, "Cache") /\ Selected(targets, "Data")
    /\ Executed("Boot")
    /\ size_query = 0
    /\ rom_ret = "false"
(***************************************************************************)
(* C17  restore_rom: housekeeping directory and permission repair          *)
(***************************************************************************)
\* control is in the System, Cache or Data block or in what it calls
InPartitionBlocks ==
    pc \in {"r_cache", "r_data", "b_archive", "b_wipe", "b_extract",
            "i_mkdir_parent", "i_stat_image", "i_mkdir_mnt", "i_fsck", "i_mount",
            "i_umount", "i_rmdir", "r_true"}

\* C17: in restore_rom no step runs before the housekeeping directory was
\* created; when its creation fails the run returns failure with no step run,
\* no repair and no size query. The permission repair has not happened while
\* control is at the Boot or Config block, and it has happened whenever the
\* size was queried, a System, Cache or Data step has begun, control is past
\* the System block, or the run returned success.
C17_HousekeepingOrder ==
    cmd = "restore" =>
        /\ steps # <<>> \/ perms_fixed \/ size_query # NotQueried => hk_mkdir = "ok"
        /\ pc \in {"r_boot", "r_config", "r_fixperm"} => hk_mkdir = "ok"
        /\ hk_mkdir = "fail"
              => rom_ret = "false" /\ steps = <<>> /\ ~perms_fixed
                    /\ size_query = NotQueried
        /\ pc \in {"r_boot", "r_config", "r_fixperm"}
              => ~perms_fixed /\ \A p \in Partitions : ~Executed(p)
        /\ (\E p \in Partitions : Executed(p)) => perms_fixed
        /\ size_query # NotQueried => perms_fixed
        /\ pc = "r_system" \/ InPartitionBlocks => perms_fixed
        /\ rom_ret = "true" => perms_fixed

\* the Boot and Config steps ran, then the repair, and a System step has begun
C17_Witness ==
    /\ cmd = "restore"
    /\ hk_mkdir = "ok"
    /\ perms_fixed
    /\ Len(steps) = 3
    /\ steps[1].step = "Boot" /\ steps[2].step = "Config" /\ steps[3].step = "System"
(***************************************************************************)
(* C18, C19, C20  the Boot step                                            *)
(***************************************************************************)
BootStepReturned == pc = "t_done" /\ steps # <<>>
BootResult == steps[Len(steps)].result
\* the files named romid in a ramdisk
RomIdFiles(ramdisk) ==
    LET files == CpioLoad(ramdisk)
    IN  {i \in 1..Len(files) : files[i].name = "romid"}
\* the files of a ramdisk that are not named romid, in their order
OtherFiles(ramdisk) == SelectSeq(CpioLoad(ramdisk), LAMBDA e : e.name # "romid")

\* C18: when restore_boot_image has returned Succeeded, the ramdisk of the
\* boot image it wrote holds exactly one file named romid, with the ROM id as
\* content and mode 0664, and the other files of the saved ramdisk as they
\* were, whether or not the saved ramdisk held a romid file; when the run
\* before, on the same bundle and ROM id, had succeeded too, the image written
\* is the one that run wrote. The bundle's artifact is never changed by the
\* restore step.
C18_RomIdSetOnce ==
    cmd = "restore" /\ boot.run > 0 =>
        /\ boot.bundle = boot.bundle_before
        /\ BootStepReturned /\ BootResult = SUCCEEDED =>
              LET files == CpioLoad(boot.live.ramdisk)
              IN  /\ Cardinality(RomIdFiles(boot.live.ramdisk)) = 1
                  /\ \A i \in RomIdFiles(boot.live.ramdisk) :
                        files[i].data = boot.id /\ files[i].mode = "0664"
                  /\ OtherFiles(boot.live.ramdisk) = OtherFiles(boot.bundle.ramdisk)
                  /\ boot.prev_result = SUCCEEDED => boot.live = boot.live_before

\* the saved ramdisk held the romid of another ROM; the step succeeded twice
C18_Witness ==
    /\ cmd = "restore"
    /\ BootStepReturned
    /\ boot.run = 2
    /\ boot.prev_result = SUCCEEDED
    /\ BootResult = SUCCEEDED
    /\ \E i \in RomIdFiles(boot.bundle.ramdisk) :
          CpioLoad(boot.bundle.ramdisk)[i].data # boot.id
    /\ Cardinality(RomIdFiles(boot.live.ramdisk)) = 1
AbootReadOps == {"read_aboot_ok", "read_aboot_fail"}
LokiOps == AbootReadOps \cup {"set_aboot", "set_target_loki"}
\* control is past the test of bi.wasType() and its branch
PastLokiBranch ==
    pc = "t_create_file" \/ InOps("create_file_ok") \/ InOps("create_file_fail")

\* C19: in restore_boot_image the aboot partition is read only for a loaded
\* image whose original type is Loki. Past the branch, for a Loki image the
\* partition was read, its content is the image's aboot image and the target
\* type is Loki; for any other type the partition was not read, no aboot image
\* was set, and the target type and aboot image are those of the load. When
\* the read fails it is the last call, the step returns Failed and the live
\* boot image is not written. The file written has the target type and aboot
\* image so set.
C19_LokiIffWasLoki ==
    cmd = "restore" /\ boot.run > 0 =>
        /\ pc = "t_read_aboot" \/ (\E i \in 1..Len(ops) : ops[i] \in LokiOps)
              => InOps("load_file_ok") /\ boot.bi.wasType = "Loki"
        /\ PastLokiBranch =>
              IF boot.bi.wasType = "Loki"
              THEN /\ \E i \in 1..(Len(ops) - 2) :
                         /\ ops[i] = "read_aboot_ok"
                         /\ ops[i + 1] = "set_aboot"
                         /\ ops[i + 2] = "set_target_loki"
                   /\ boot.bi.aboot = AbootDevice
                   /\ boot.bi.targetType = "Loki"
              ELSE /\ \A i \in 1..Len(ops) : ops[i] \notin LokiOps
                   /\ boot.bi.targetType = boot.target_of[boot.bi.wasType]
                   /\ boot.bi.aboot = boot.bundle.aboot
        /\ InOps("read_aboot_fail")
              => /\ ops[Len(ops)] = "read_aboot_fail"
                 /\ BootStepReturned /\ BootResult = FAILED
                 /\ boot.live = boot.live_before
        /\ InOps("create_file_ok") => boot.live = BootImageCreate(boot.bi)

\* a saved Loki image whose load picked another target type was written as a
\* Loki image with the device's aboot
C19_Witness ==
    /\ cmd = "restore"
    /\ BootStepReturned
    /\ BootResult = SUCCEEDED
    /\ boot.bundle.type = "Loki"
    /\ boot.target_of["Loki"] # "Loki"
    /\ InOps("read_aboot_ok")
    /\ boot.live.type = "Loki"
    /\ boot.live.aboot = AbootDevice

\* C20: backup_boot_image returns FilesMissing exactly when the live boot image
\* does not exist, and then makes no copy and leaves the artifact as it was;
\* it returns Failed exactly when the copy failed; otherwise it returns
\* Succeeded and the artifact is the live image; the live image is never
\* changed. restore_boot_image returns FilesMissing exactly when the bundle
\* has no artifact, and then its stat is its only call: nothing is loaded and
\* the live boot image is not written.
C20_BootMissingAndFailed ==
    BootStepReturned =>
        IF cmd = "backup"
        THEN /\ boot.live = boot.live_before
             /\ BootResult = FILES_MISSING <=> boot.live = NoImage
             /\ boot.live = NoImage
                   => ops = <<"live_missing">> /\ boot.bundle = boot.bundle_before
             /\ BootResult = FAILED <=> ops = <<"live_exists", "copy_fail">>
             /\ BootResult = SUCCEEDED
                   <=> ops = <<"live_exists", "copy_ok">> /\ boot.bundle = boot.live
        ELSE /\ BootResult = FILES_MISSING <=> boot.bundle = NoImage
             /\ boot.bundle = NoImage
                   => /\ ops = <<"artifact_missing">>
                      /\ boot.bi = NoBi /\ boot.cpio = <<>>
                      /\ boot.live = boot.live_before

\* a restore found no artifact in the bundle and left the older live image alone
C20_Witness ==
    /\ cmd = "restore"
    /\ BootStepReturned
    /\ BootResult = FILES_MISSING
    /\ boot.bundle = NoImage
    /\ boot.live = OldImage
(***************************************************************************)
(* C21, C22  the commands' checks                                          *)
(***************************************************************************)
\* every token of the -t argument names a target
TargetsAcceptable(str) == \A tok \in TokensOf(str) : tok \in ValidTokens
AllMounted(m) == \A p \in Partitions : m[p] = "mounted"

\* the command ends here with failure, backup_rom / restore_rom not entered
RejectedNext ==
    /\ pc' = "done"
    /\ exit_status' = EXIT_FAILURE
    /\ ~rom_called'
    /\ steps' = <<>>
    /\ rom_ret' = "none"

\* the check a command is at finds its precondition violated
ViolationFound ==
    \/ pc = "m_romid" /\ romid = ""
    \/ pc = "m_name_given" /\ name = <<>>
    \/ pc = "m_targets" /\ ~TargetsAcceptable(targets_str)
    \/ pc = "m_name" /\ ~NameAcceptable(name)
    \/ pc = "m_mounted" /\ ~AllMounted(partitions')
    \/ pc = "m_dir" /\ cmd = "restore" /\ bundle_dir' = "absent"

\* backup_rom / restore_rom is entered only with every precondition met, and
\* before it is entered no step has run
AcceptedOnlyIfMet ==
    entry = "main" =>
        /\ rom_called =>
              /\ romid # ""
              /\ TargetsAcceptable(targets_str)
              /\ targets # 0
              /\ NameAcceptable(name)
              /\ AllMounted(partitions)
              /\ cmd = "restore" => bundle_dir = "exists"
        /\ ~rom_called => steps = <<>> /\ ops = <<>> /\ rom_ret = "none"

\* C21: in backup_main and restore_main, a check that finds its precondition
\* violated (no ROM id, for restore no name, a -t argument with a token that
\* is not a target, an unsafe name, a partition of system, cache, data not
\* mounted, for restore no bundle directory) ends the command with failure
\* status before backup_rom / restore_rom is called and with no step run;
\* backup_rom / restore_rom is only ever entered with all of these met, in
\* particular with all three partitions mounted.
C21_PreconditionsChecked ==
    /\ []AcceptedOnlyIfMet
    /\ [][entry = "main" /\ ViolationFound => RejectedNext]_vars

\* a command with a ROM id, targets and a safe name found the data partition
\* not mounted and ended with failure, no step run
C21_Witness ==
    /\ entry = "main"
    /\ pc = "done"
    /\ name_checked = "accepted"
    /\ partitions["System"] = "mounted"
    /\ partitions["Cache"] = "mounted"
    /\ partitions["Data"] = "unmounted"
    /\ exit_status = EXIT_FAILURE
    /\ ~rom_called
    /\ steps = <<>>
\* backup_main's stat finds the bundle directory
ExistingBundleFound == entry = "main" /\ cmd = "backup" /\ pc = "m_dir" /\ bundle_dir' = "exists"

\* C22: when backup_main finds that the bundle directory exists, without -f
\* the command ends there with failure status: mkdir_recursive and backup_rom
\* are not called and no step runs; with -f it goes on to mkdir_recursive and,
\* when that succeeds, enters backup_rom for the directory that exists. A
\* backup command is at mkdir_recursive for an existing directory only with -f.
C22_ExistingBundleNeedsForce ==
    /\ [](entry = "main" /\ cmd = "backup" /\ pc = "m_mkdir" /\ bundle_dir = "exists"
              => force)
    /\ [][ExistingBundleFound =>
              IF force
              THEN pc' = "m_mkdir" /\ exit_status' = "none" /\ steps' = <<>>
              ELSE RejectedNext /\ UNCHANGED <<worldVars, stepVars, fileVars>>]_vars
    /\ [][entry = "main" /\ pc = "m_mkdir" /\ pc' # "done"
              => pc' = "r_entry" /\ rom_called' /\ bundle_dir' = "exists"]_vars

\* a backup without -f found the bundle directory and ended with failure, no step run
C22_Witness ==
    /\ entry = "main"
    /\ cmd = "backup"
    /\ pc = "done"
    /\ ~force
    /\ bundle_dir = "exists"
    /\ exit_status = EXIT_FAILURE
    /\ ~rom_called
    /\ steps = <<>>
(***************************************************************************)
(* C23  directory mode: what is archived, and the round trip               *)
(***************************************************************************)
\* the entries of the live directory
LiveEntries == {tree.listing[i] : i \in 1..Len(tree.listing)} \ {Dot, DotDot}
\* the names of the exclusion list
Excluded == {tree.exclusions[i] : i \in 1..Len(tree.exclusions)}
ArchiveMembers == {tree.archive[i] : i \in 1..Len(tree.archive)}

\* C23: when backup_directory has returned true, the archive holds, each once,
\* exactly the entries of the live directory whose name is not in the
\* exclusion list, "." and ".." left out; a name that only resembles an
\* excluded name is archived, and with an empty list every entry is. When
\* restore_directory of that archive into an empty directory has returned
\* true too, the entries of that directory are the live entries minus the
\* excluded names.
C23_DirectoryRoundTrip ==
    /\ tree.backup_ret = "true"
          => /\ ArchiveMembers = LiveEntries \ Excluded
             /\ Len(tree.archive) = Cardinality(ArchiveMembers)
             /\ tree.exclusions = <<>> => ArchiveMembers = LiveEntries
    /\ tree.restore_ret = "true"
          => /\ tree.backup_ret = "true"
             /\ tree.target = LiveEntries \ Excluded

\* the live directory held an excluded entry and one whose name begins like
\* it; after backup and restore only the second is there
C23_Witness ==
    /\ pc = "d_done"
    /\ tree.restore_ret = "true"
    /\ Multiboot \in LiveEntries
    /\ Multiboot \in Excluded
    /\ <<"m", "2">> \in LiveEntries
    /\ tree.target = {<<"m", "2">>}
(***************************************************************************)
(* C24  two invocations and the one mount point                            *)
(***************************************************************************)
Other(i) == CHOOSE j \in Invocations : j # i
\* what invocation i mounted is still mounted
MountInPlace(i) == \E k \in 1..Len(inv.stack) : inv.stack[k] = i
\* invocation i is at its mount and the mount succeeds
MountSucceeds(i) == X_Mount(i) /\ mnt_count' = mnt_count + 1
\* invocation i is at its umount and the umount succeeds
UmountSucceeds(i) == X_Umount(i) /\ mnt_count' = mnt_count - 1

\* C24: nothing in backup_image / restore_image holds an invocation back
\* because of the other one: with two invocations, an invocation at its mount
\* can mount at the mount point while the other's mount is in place there
\* (the directory existing), and an invocation at its umount can unmount
\* while the other is in its archive or extract body; the mounts counted at
\* the mount point are those of the two invocations together.
C24_NoLockOnMountPoint ==
    pc = "two" =>
        /\ mnt_count = Len(inv.stack)
        /\ \A i \in Invocations :
              /\ At(i) = "x_mount" /\ mnt_exists /\ MountInPlace(Other(i))
                    => ENABLED MountSucceeds(i)
              /\ At(i) = "x_umount" /\ At(Other(i)) = "x_body" /\ inv.stack # <<>>
                    => ENABLED UmountSucceeds(i)

\* both invocations have mounted at the mount point and are in their bodies
C24_Witness ==
    /\ pc = "two"
    /\ mnt_count = 2
    /\ \A i \in Invocations : At(i) = "x_body" /\ MountInPlace(i)
(***************************************************************************)
(* C25  one invocation: no mount left from an earlier step                 *)
(***************************************************************************)
\* control is between a successful mount and the umount of the same step
InMountedBody == pc \in {"b_archive", "b_wipe", "b_extract", "i_umount"}

\* C25: in one run of backup_rom / restore_rom at most one filesystem is
\* mounted at the mount point; one is mounted only between the mount and the
\* umount of an image-mode step, or after a failed umount, which is the last
\* call of the run: the step returns Failed and the run returns failure with
\* no further step. So at the start of every partition step, and at every
\* mount, nothing mounted by the run is in place.
C25_NoMountLeftForNextStep ==
    /\ mnt_count \in {0, 1}
    /\ mnt_count = 1 =>
          \/ InMountedBody /\ steps # <<>> /\ rom[LastStep.step]
                /\ LastStep.result = RUNNING
          \/ /\ pc \in {"r_return", "done"}
             /\ ops # <<>> /\ ops[Len(ops)] = "umount_fail"
             /\ LastStep.result = FAILED
             /\ rom_ret = "false"
    /\ pc \in {"r_system", "r_cache", "r_data", "i_mkdir_parent", "i_stat_image",
               "i_mkdir_mnt", "i_fsck", "i_mount"} => mnt_count = 0

\* an image-mode step mounted and unmounted, and a later image-mode step of
\* the same run is at its mount with nothing mounted
C25_Witness ==
    /\ pc = "i_mount"
    /\ Len(steps) > 1
    /\ \E k \in 1..(Len(steps) - 1) :
          /\ steps[k].step \in Partitions
          /\ rom[steps[k].step]
          /\ steps[k].result = SUCCEEDED
    /\ mnt_count = 0
(***************************************************************************)
(* C26  the commands' exit status                                          *)
(***************************************************************************)
\* the command ends with a success status in this step
ExitsWithSuccess == entry = "main" /\ exit_status = "none" /\ exit_status' = EXIT_SUCCESS

\* C26: a command returns a success exit status only from its option loop,
\* for -h, or after backup_rom / restore_rom returned true; every other
\* return, the failed default name of backup_main among them, has a failure
\* status.
C26_SuccessOnlyForHelpOrRomSuccess ==
    [][ExitsWithSuccess => pc = "m_opts" \/ (pc = "r_return" /\ rom_ret = "true")]_vars

=============================================================================
